---- MODULE Spec2Model ----
(***************************************************************************)
(* The fine-tuning orchestrator of mini-studio                             *)
(* (src/app/services/fine_tuning/service.py, FineTuningService) with its   *)
(* collaborators: the MongoDB collections fine_tuning_jobs and             *)
(* fine_tuning_datasets, the in-process map _jobs_cache, the local         *)
(* filesystem (DFS) and the Ray client                                     *)
(* (src/app/clients/ray_fine_tuning.py).                                   *)
(*                                                                         *)
(* One asyncio event loop runs every coroutine; an action is the code      *)
(* between two suspension points (await of a MongoDB operation), together  *)
(* with the effect of the operation awaited.  A MongoDB operation either   *)
(* takes effect or raises; the choice is made per operation (ok).          *)
(***************************************************************************)
EXTENDS Integers, Sequences, FiniteSets, TLC

\* ------------------------------------------------------------------ bounds
\* Number of submit calls made in a run; call r creates job_id r (uuid4 gives
\* every call a fresh id).
MaxJobs == 2

Jobs == 1..MaxJobs

\* The values int(time.time()) takes in a run: the clock is read when a job
\* is built and never runs backwards.
MaxTime == 2

Times == 1..MaxTime

\* The runs whose submit calls all fall into one second.
SameSecond == {1}

\* Number of deploy calls made in a run.
MaxDeploys == 2

Deploys == 1..MaxDeploys

\* Number of upload_dataset calls made in a run.
MaxUploads == 2

Uploads == 1..MaxUploads

\* The depth of nested get_client_config coroutines at which the interpreter
\* raises RecursionError (sys.getrecursionlimit() frames in CPython).
RecursionLimit == 2

\* ------------------------------------------------------- values and types
\* Python's None for string-valued fields.
None == "None"

\* Python truthiness of an optional string: None and "" are false.
Truthy(s) == s # None /\ s # ""

\* str.strip() on the strings of the model: a blank string strips to "".
Strip(s) == IF s = " " THEN "" ELSE s

Max(a, b) == IF a >= b THEN a ELSE b

\* gpu_per_bytes = 48 * 1024 * 1024 * 1024.  Sizes are counted in GiB
\* (2^30 bytes) so that the capacity fits TLC's 32-bit integers; floor
\* division is unchanged by the common factor.
gpu_per_bytes == 48

\* estimated_gpus = max(1, (dataset_size // gpu_per_bytes) + 1)
EstimateGpus(dataset_size) == Max(1, (dataset_size \div gpu_per_bytes) + 1)

\* The handle ray_client.submit_job returns for the driver of job j
\* (<<>> is None: no handle).
NoHandle == <<>>
RayHandle(j) == <<"raysubmit", j>>

\* The path _save_dataset gives the upload of submit call r:
\* {DFS_BASE}/{client_code}/datasets/{uuid4}_{filename}.
UploadPath(r) ==
  CASE r = 1 -> "/dfs/up1"
    [] r = 2 -> "/dfs/up2"
    [] r = 3 -> "/dfs/up3"
    [] OTHER -> "/dfs/upN"

\* ------------------------------------------------------------ environment
\* The dataset catalog (collection fine_tuning_datasets) when the process
\* starts, in natural order.  A field the document lacks is 0 / None.
\*   a.jsonl  on disk, exactly one GPU capacity large
\*   b.jsonl  on disk, empty (size 0)
\*   c.jsonl  recorded, but its file has been removed from disk
\*   d.jsonl  on disk, size recorded under dataset_size_bytes only
InitialCatalog ==
  << [id |-> "oid_a", client_code |-> "t1", filename |-> "a.jsonl",
      dataset_dfs |-> "/dfs/a", dataset_s3 |-> "t1/datasets/a.jsonl",
      size_bytes |-> gpu_per_bytes, dataset_size_bytes |-> 0],
     [id |-> "oid_b", client_code |-> "t1", filename |-> "b.jsonl",
      dataset_dfs |-> "/dfs/b", dataset_s3 |-> None,
      size_bytes |-> 0, dataset_size_bytes |-> 0],
     [id |-> "oid_c", client_code |-> "t2", filename |-> "c.jsonl",
      dataset_dfs |-> "/dfs/c", dataset_s3 |-> None,
      size_bytes |-> 1, dataset_size_bytes |-> 0],
     [id |-> "oid_d", client_code |-> "t1", filename |-> "d.jsonl",
      dataset_dfs |-> "/dfs/d", dataset_s3 |-> None,
      size_bytes |-> 0, dataset_size_bytes |-> gpu_per_bytes + 1] >>

\* The files on the local disk when the process starts: path -> size.
InitialFiles ==
  ("/dfs/a" :> gpu_per_bytes) @@ ("/dfs/b" :> 0) @@
  ("/dfs/d" :> gpu_per_bytes + 1) @@
  ("/local/x" :> 2 * gpu_per_bytes) @@ ("/local/empty" :> 0)

\* The payloads a caller passes to submit_job: what payload.get() reads.
\* dataset_kind tells the Python type of payload["dataset_filename"]:
\* "none" (absent / None), "str" or "upload" (an UploadFile of upload_size).
\* model is the value under the key "model", which these payloads lack.
\* lookup is not part of the payload: it records, once the call has been
\* made, whether its catalog find_one was answered ("answered"), raised or
\* had no collection to ask ("failed"), or was not made ("none").
Payload(m, c, k, d, u) ==
  [model_name |-> m, model |-> None, client_code |-> c, dataset_kind |-> k,
   dataset_filename |-> d, upload_size |-> u, lookup |-> "none"]

\* request.model_dump() of a FineTuningJobRequest (model.py 5-12), the type
\* the submit route declares: the keys are the fields of the class, among
\* them "model"; there is no key "model_name".
ModelDump(model, client_code, dataset_filename) ==
  [Payload(None, client_code, "str", dataset_filename, 0) EXCEPT !.model = model]

\* The requests the submit route passes on.
RoutePayloads == {ModelDump("m1", "t1", d) : d \in {"a.jsonl", "/local/x"}}

ModelNames == {None, "", "m1"}
DatasetStrings ==
  {"", " ", "a.jsonl", "b.jsonl", "/dfs/c", "oid_d", "/local/x",
   "/local/empty", "/nowhere"}
UploadSizes == {0, 1}

\* The payloads of the concurrent calls of Spec: a catalogued dataset, with
\* and without a model_name.
CorePayloads == {Payload(m, "t1", "str", "a.jsonl", 0) : m \in {None, "m1"}}

\* The payloads of the call of SpecInputs: every kind of model_name and of
\* dataset reference.
AllPayloads ==
  {Payload(m, "t1", "str", "a.jsonl", 0) : m \in ModelNames}
  \cup {Payload("m1", None, "str", "a.jsonl", 0)}
  \cup {Payload("m1", "t1", "str", d, 0) : d \in DatasetStrings}
  \cup {Payload("m1", "t1", "none", None, 0)}
  \cup {Payload("m1", "t1", "upload", "up.jsonl", u) : u \in UploadSizes}
  \cup RoutePayloads

\* A catalog in which one string names two records through different
\* fields: "shared" is the filename of the record oid_e and the remote key of
\* the record oid_f, which comes later in natural order.
OverlappingCatalog ==
  InitialCatalog \o
  << [id |-> "oid_e", client_code |-> "t1", filename |-> "shared",
      dataset_dfs |-> "/dfs/e", dataset_s3 |-> None,
      size_bytes |-> 1, dataset_size_bytes |-> 0],
     [id |-> "oid_f", client_code |-> "t1", filename |-> "f.jsonl",
      dataset_dfs |-> "/dfs/f", dataset_s3 |-> "shared",
      size_bytes |-> 2, dataset_size_bytes |-> 0] >>

\* Strings that name a record of the catalog: by remote key, by storage
\* path, by filename, by record identifier.
CatalogRefs == {"t1/datasets/a.jsonl", "/dfs/a", "a.jsonl", "oid_a", "shared"}

\* The payloads of the calls of SpecResolve.
CataloguedPayloads == {Payload("m1", "t1", "str", d, 0) : d \in CatalogRefs}

NoPayload ==
  [model_name |-> None, model |-> None, client_code |-> None, dataset_kind |-> "none",
   dataset_filename |-> None, upload_size |-> 0, lookup |-> "none"]

\* ------------------------------------------------------------------ state
VARIABLES
  jobs_coll_present, \* self._jobs_coll / self._db is not None (set in __init__)
  ray_client,        \* the module's ray_client is not None
  jobs_coll,         \* collection fine_tuning_jobs: job_id -> document
  jobs_cache,        \* self._jobs_cache: job_id -> job dict
  datasets_coll,     \* collection fine_tuning_datasets, in natural order
  files,             \* the local disk: path -> size
  pc,                \* position of submit call r: "idle", "insert", "returned"
  request,           \* the payload of submit call r
  job,               \* the local `job` dict of submit call r (<<>> before it is built)
  submit_resp,       \* the JSONResponse submit call r returned
  bg,                \* position of the task _background_process_job(r, job)
  ray_outcome,       \* what ray_client.submit_job returned to the task of job r
  status_resp,       \* the JSONResponse of the get_job_status call returning in this step
  cache_order,       \* the keys of self._jobs_cache in insertion order (dict order)
  list_resp,         \* the JSONResponse of the list_jobs call returning in this step
  upload_call,       \* the upload_dataset calls: position, arguments, response
  config_coll,       \* collection client_config: client_code -> document
  redis,             \* the keys of self._redis: key -> value and expiry
  get_call,          \* the get_client_config call under way or just ended
  prev_call,         \* the get_client_config call that ended before it
  ttl_expired,       \* the keys the TTL has removed since the last call ended
  k8s,               \* the objects of namespace default, by kind: sets of names
  model_routing,     \* collection model_routing, in natural order
  deploy_call,       \* the deploy calls: position, request, outcome
  infer_call         \* the infer_proxy call under way or just ended

\* The state of the fine-tuning service.
jobVars ==
  << jobs_coll_present, ray_client, jobs_coll, jobs_cache, datasets_coll, files,
     pc, request, job, submit_resp, bg, ray_outcome, status_resp, cache_order,
     list_resp >>

\* The state of the configuration cache.
cfgVars == << config_coll, redis, get_call, prev_call, ttl_expired >>

\* The state of the deployment planner and the inference proxy.
depVars == << k8s, model_routing, deploy_call, infer_call >>

\* What the fine-tuning service leaves alone.
notJobVars == << cfgVars, depVars, upload_call >>

vars == << jobVars, upload_call, cfgVars, depVars >>

NoSubmitResp == [code |-> 0, status |-> None]

\* An upload_dataset call that has not been made; code, dataset_id,
\* dataset_dfs, dataset_s3 and size_bytes are the status and the content of
\* its response.
NoUpload ==
  [pc |-> "idle", client_code |-> None, upload_size |-> 0, saved |-> None,
   mirrored |-> FALSE, code |-> 0, dataset_id |-> None, dataset_dfs |-> None,
   dataset_s3 |-> None, size_bytes |-> 0]
NoStatusResp ==
  [job_id |-> 0, code |-> 0, job |-> <<>>, enriched |-> FALSE, ray_status |-> None]
NoListResp == [client_code |-> None, code |-> 0, served_from |-> None, jobs |-> <<>>]

\* ------------------------------------------------- the document store
\* dict.update(update) / {"$set": update}: the fields of update replace
\* those of the record.
Merge(rec, update) ==
  [f \in DOMAIN rec |-> IF f \in DOMAIN update THEN update[f] ELSE rec[f]]

\* Faulty variant of InsertJob: the job is put into _jobs_cache whether or not
\* insert_one stored it.
InsertJobAlsoCached(coll, cache, job_id, j, ok) ==
  IF jobs_coll_present /\ ok
    THEN [coll |-> (job_id :> j) @@ coll, cache |-> (job_id :> j) @@ cache,
          order |-> Append(cache_order, job_id)]
    ELSE [coll |-> coll, cache |-> (job_id :> j) @@ cache,
          order |-> Append(cache_order, job_id)]

\* FineTuningService._insert_job: insert_one into the collection; when there
\* is no collection or insert_one raises, the job goes to _jobs_cache.
InsertJob(coll, cache, job_id, j, ok) ==
  IF jobs_coll_present /\ ok
    THEN [coll |-> (job_id :> j) @@ coll, cache |-> cache, order |-> cache_order]
    ELSE [coll |-> coll, cache |-> (job_id :> j) @@ cache,
          order |-> Append(cache_order, job_id)]

\* Faulty variant of UpdateJob: the try/except around update_one is missing, so a
\* failing update_one raises out of _update_job and the cache is not tried.
\* Faulty variant of UpdateJob: the filter on job_id is missing, so the update
\* reaches every job.
UpdateJobEveryJob(coll, cache, job_id, update, ok) ==
  IF jobs_coll_present /\ ok
    THEN [coll |-> [k \in DOMAIN coll |-> Merge(coll[k], update)],
          cache |-> cache, raised |-> FALSE]
    ELSE [coll |-> coll,
          cache |-> [k \in DOMAIN cache |-> Merge(cache[k], update)],
          raised |-> FALSE]

\* Faulty variant of UpdateJob: an exception of update_one leaves the method.
UpdateJobRaises(coll, cache, job_id, update, ok) ==
  IF ~jobs_coll_present
    THEN [coll |-> coll,
          cache |-> IF job_id \in DOMAIN cache
                      THEN [cache EXCEPT ![job_id] = Merge(@, update)]
                      ELSE cache,
          raised |-> FALSE]
  ELSE IF ok
    THEN [coll |-> IF job_id \in DOMAIN coll
                     THEN [coll EXCEPT ![job_id] = Merge(@, update)]
                     ELSE coll,
          cache |-> cache, raised |-> FALSE]
  ELSE [coll |-> coll, cache |-> cache, raised |-> TRUE]

\* FineTuningService._update_job: update_one({"job_id": job_id}, {"$set":
\* update}) changes the matching document and nothing when none matches;
\* when there is no collection or update_one raises, the cache entry is
\* updated if there is one.  No exception leaves the method.
UpdateJob(coll, cache, job_id, update, ok) ==
  IF jobs_coll_present /\ ok
    THEN [coll |-> IF job_id \in DOMAIN coll
                     THEN [coll EXCEPT ![job_id] = Merge(@, update)]
                     ELSE coll,
          cache |-> cache, raised |-> FALSE]
    ELSE [coll |-> coll,
          cache |-> IF job_id \in DOMAIN cache
                      THEN [cache EXCEPT ![job_id] = Merge(@, update)]
                      ELSE cache,
          raised |-> FALSE]

\* FineTuningService._get_job: find_one({"job_id": job_id}) and its result,
\* a document or None (<<>>); the cache only when there is no collection or
\* find_one raises.
GetJob(coll, cache, job_id, ok) ==
  IF jobs_coll_present /\ ok
    THEN IF job_id \in DOMAIN coll THEN << coll[job_id] >> ELSE <<>>
    ELSE IF job_id \in DOMAIN cache THEN << cache[job_id] >> ELSE <<>>

\* ------------------------------------------------------ dataset resolution
\* ObjectId(dataset_identifier) succeeds for strings of the ObjectId form.
IsObjectId(s) == s \in {"oid_a", "oid_b", "oid_c", "oid_d", "oid_e", "oid_f", "oid_up"}

\* The $or query of submit_job: dataset_s3, dataset_dfs, filename, and _id
\* when the identifier parses as an ObjectId.
MatchesQuery(doc, ref) ==
  \/ doc.dataset_s3 = ref
  \/ doc.dataset_dfs = ref
  \/ doc.filename = ref
  \/ (IsObjectId(ref) /\ doc.id = ref)

\* datasets_coll.find_one({"$or": query_or}): the first matching document in
\* natural order, or None (<<>>).
FindOne(catalog, ref) ==
  LET hits == {i \in 1..Len(catalog) : MatchesQuery(catalog[i], ref)}
  IN  IF hits = {} THEN <<>>
      ELSE << catalog[CHOOSE i \in hits : \A k \in hits : i <= k] >>

\* dataset_doc.get("size_bytes") or dataset_doc.get("dataset_size_bytes") or 0
DocSize(doc) ==
  IF doc.size_bytes # 0 THEN doc.size_bytes
  ELSE IF doc.dataset_size_bytes # 0 THEN doc.dataset_size_bytes
  ELSE 0

\* _save_dataset: the file is saved, or an exception is logged and raised
\* again (218-220).
SaveOutcomes == {"saved", "OSError", "ValueError"}

\* The dataset document submit_job writes for an uploaded file.
UploadDoc(r, client_code, s3_key, size) ==
  [id |-> "oid_up", client_code |-> client_code, filename |-> "up.jsonl",
   dataset_dfs |-> UploadPath(r), dataset_s3 |-> s3_key,
   size_bytes |-> size, dataset_size_bytes |-> 0]

\* Faulty variant of ResolveDataset: a catalogued dataset is copied for the
\* job and the job gets the path of its own copy.
ResolveDatasetStagesCopy(r, p, client_code, ok, saved, mirrored) ==
  LET ref == Strip(p.dataset_filename)
      found == IF jobs_coll_present /\ ok THEN FindOne(datasets_coll, ref) ELSE <<>>
  IN  IF p.dataset_kind = "str" /\ ref # "" /\ found # <<>>
        THEN [code |-> 0, dfs |-> UploadPath(r), s3 |-> found[1].dataset_s3,
              size |-> DocSize(found[1]), files |-> files, catalog |-> datasets_coll]
      ELSE IF p.dataset_kind = "str" /\ ref \in DOMAIN files
        THEN [code |-> 0, dfs |-> ref, s3 |-> None, size |-> files[ref],
              files |-> files, catalog |-> datasets_coll]
      ELSE [code |-> 400, dfs |-> None, s3 |-> None, size |-> 0,
            files |-> files, catalog |-> datasets_coll]

\* Faulty variant of ResolveDataset: the os.path.exists test is missing, so a string
\* the catalog does not know is taken as a local path.
ResolveDatasetNoExistsCheck(r, p, client_code, ok, saved, mirrored) ==
  IF p.dataset_kind = "str" /\ Strip(p.dataset_filename) # ""
    THEN [code |-> 0, dfs |-> Strip(p.dataset_filename), s3 |-> None, size |-> 0,
          files |-> files, catalog |-> datasets_coll]
    ELSE [code |-> 400, dfs |-> None, s3 |-> None, size |-> 0,
          files |-> files, catalog |-> datasets_coll]

\* The dataset branch of submit_job (service.py 287-355): code 0 means the
\* call goes on to build the job; 400 and 500 are the responses it returns.
\*   upload: _save_dataset writes the file and mirrors it to S3 (mirrored);
\*           an exception it raises leaves submit_job through its handlers
\*           (389-393): 400 for a ValueError, 500 otherwise; the catalog
\*           insert is best effort (ok);
\*   string: catalog lookup (ok: find_one did not raise), then the local
\*           path if os.path.exists;
\*   other:  400.
ResolveDataset(r, p, client_code, ok, saved, mirrored) ==
  LET same == [files |-> files, catalog |-> datasets_coll]
      fail(code) ==
        [code |-> code, dfs |-> None, s3 |-> None, size |-> 0,
         files |-> same.files, catalog |-> same.catalog]
  IN
  IF p.dataset_kind = "upload" THEN
    IF saved = "ValueError" THEN fail(400)
    ELSE IF saved = "OSError" THEN fail(500)
    ELSE
      LET key == IF mirrored THEN "s3/up.jsonl" ELSE None
      IN  [code |-> 0, dfs |-> UploadPath(r), s3 |-> key, size |-> p.upload_size,
           files |-> (UploadPath(r) :> p.upload_size) @@ files,
           catalog |-> IF jobs_coll_present /\ ok
                         THEN Append(datasets_coll,
                                     UploadDoc(r, client_code, key, p.upload_size))
                         ELSE datasets_coll]
  ELSE IF p.dataset_kind = "str" /\ Strip(p.dataset_filename) # "" THEN
    LET ref == Strip(p.dataset_filename)
        found == IF jobs_coll_present /\ ok THEN FindOne(datasets_coll, ref) ELSE <<>>
    IN  IF found # <<>>
          THEN [code |-> 0, dfs |-> found[1].dataset_dfs, s3 |-> found[1].dataset_s3,
                size |-> DocSize(found[1]),
                files |-> same.files, catalog |-> same.catalog]
        ELSE IF ref \in DOMAIN files
          THEN [code |-> 0, dfs |-> ref, s3 |-> None, size |-> files[ref],
                files |-> same.files, catalog |-> same.catalog]
        ELSE fail(400)
  ELSE fail(400)

\* Whether submit_job asks the catalog for payload p (a model_name and a
\* non-blank string reference, 282 and 311-313) and whether find_one answers.
CatalogLookup(p, ok) ==
  IF Truthy(p.model_name) /\ p.dataset_kind = "str" /\ Strip(p.dataset_filename) # ""
    THEN IF jobs_coll_present /\ ok THEN "answered" ELSE "failed"
    ELSE "none"

\* The job dict submit_job builds (service.py 361-383); now is
\* int(time.time()), and updated_at starts equal to created_at.  ray_job_id
\* and error are keys the dict lacks until an update sets them.
NewJob(client_code, model_name, dfs, s3, size, now) ==
  [client_code |-> client_code, status |-> "submitted", created_at |-> now,
   model_name |-> model_name,
   dataset_dfs |-> dfs, dataset_s3 |-> s3, dataset_size_bytes |-> size,
   estimated_gpus |-> EstimateGpus(size), ray_job_id |-> NoHandle, error |-> None]

\* The latest value read from the clock so far: the clock is read once per
\* job built (now = int(time.time()), service.py 362).
LastClockRead ==
  LET reads == {job[r][1].created_at : r \in {q \in Jobs : job[q] # <<>>}}
  IN  IF reads = {} THEN 1 ELSE CHOOSE t \in reads : \A u \in reads : t >= u

\* ------------------------------------------------------------------ Init
\* The fine-tuning service after construction, with the dataset catalog it
\* finds in the document store.
JobsInitWith(catalog) ==
  /\ jobs_coll_present \in BOOLEAN
  /\ ray_client \in BOOLEAN
  /\ jobs_coll = <<>>
  /\ jobs_cache = <<>>
  /\ datasets_coll = catalog
  /\ files = InitialFiles
  /\ pc = [r \in Jobs |-> "idle"]
  /\ request = [r \in Jobs |-> NoPayload]
  /\ job = [r \in Jobs |-> <<>>]
  /\ submit_resp = [r \in Jobs |-> NoSubmitResp]
  /\ bg = [r \in Jobs |-> "none"]
  /\ ray_outcome = [r \in Jobs |-> "notcalled"]
  /\ status_resp = NoStatusResp
  /\ cache_order = <<>>
  /\ list_resp = NoListResp
  /\ upload_call = [u \in Uploads |-> NoUpload]

JobsInit == JobsInitWith(InitialCatalog)

\* The fine-tuning service with its collection and its Ray client, before
\* any call.
JobsAtRest == JobsInit /\ jobs_coll_present /\ ray_client

\* ---------------------------------------------------------------- submit
\* submit_job up to the await of _insert_job: validation of model_name, the
\* dataset branch, and the job dict.
SubmitWith(r, payloads, times) ==
  /\ pc[r] = "idle"
  /\ \E p \in payloads, ok \in BOOLEAN, saved \in SaveOutcomes,
       mirrored \in BOOLEAN, now \in times :
       LET client_code == IF Truthy(p.client_code) THEN p.client_code ELSE p.model_name
           res == ResolveDataset(r, p, client_code, ok, saved, mirrored)
       IN
       /\ now >= LastClockRead
       /\ request' = [request EXCEPT ![r] =
                         [p EXCEPT !.lookup = CatalogLookup(p, ok)]]
       /\ IF ~Truthy(p.model_name)
            THEN /\ pc' = [pc EXCEPT ![r] = "returned"]
                 /\ submit_resp' = [submit_resp EXCEPT ![r] = [code |-> 400, status |-> None]]
                 /\ UNCHANGED << job, files, datasets_coll >>
          ELSE IF res.code # 0
            THEN /\ pc' = [pc EXCEPT ![r] = "returned"]
                 /\ submit_resp' = [submit_resp EXCEPT ![r] = [code |-> res.code, status |-> None]]
                 /\ UNCHANGED << job, files, datasets_coll >>
          ELSE /\ pc' = [pc EXCEPT ![r] = "insert"]
               /\ job' = [job EXCEPT ![r] =
                            << NewJob(client_code, p.model_name, res.dfs, res.s3, res.size, now) >>]
               /\ files' = res.files
               /\ datasets_coll' = res.catalog
               /\ UNCHANGED submit_resp
  /\ status_resp' = NoStatusResp
  /\ list_resp' = NoListResp
  /\ UNCHANGED << notJobVars, jobs_coll_present, ray_client, jobs_coll, jobs_cache, bg, ray_outcome,
                  cache_order >>

SubmitResolve(r) == SubmitWith(r, CorePayloads, SameSecond)

SubmitAny(r) == SubmitWith(r, AllPayloads, SameSecond)

\* Submit calls that name a record of the catalog.
SubmitCatalogued(r) == SubmitWith(r, CataloguedPayloads, SameSecond)

\* Submit calls made at any time of the clock.
SubmitTimed(r) == SubmitWith(r, CorePayloads, Times)

\* Faulty variant of SubmitInsert: the driver is awaited inside submit_job instead of
\* being scheduled, so its update to queued is made before submit returns.
SubmitInsertAwaitsDriver(r) ==
  /\ pc[r] = "insert"
  /\ \E ok \in BOOLEAN, ok2 \in BOOLEAN :
       LET st == InsertJob(jobs_coll, jobs_cache, r, job[r][1], ok)
           u == UpdateJob(st.coll, st.cache, r, [status |-> "queued"], ok2)
       IN  /\ jobs_coll' = u.coll
           /\ jobs_cache' = u.cache
           /\ cache_order' = st.order
  /\ bg' = [bg EXCEPT ![r] = "queued"]
  /\ submit_resp' = [submit_resp EXCEPT ![r] = [code |-> 201, status |-> job[r][1].status]]
  /\ pc' = [pc EXCEPT ![r] = "returned"]
  /\ status_resp' = NoStatusResp
  /\ list_resp' = NoListResp
  /\ UNCHANGED << notJobVars, jobs_coll_present, ray_client, datasets_coll, files, request, job,
                  ray_outcome >>

\* Faulty variant of SubmitInsert: submit_job refuses the job when there is no Ray
\* client.
SubmitInsertNeedsBackend(r) ==
  /\ pc[r] = "insert"
  /\ IF ray_client
       THEN /\ \E ok \in BOOLEAN :
                 LET st == InsertJob(jobs_coll, jobs_cache, r, job[r][1], ok)
                 IN  /\ jobs_coll' = st.coll
                     /\ jobs_cache' = st.cache
                     /\ cache_order' = st.order
            /\ bg' = [bg EXCEPT ![r] = "spawned"]
            /\ submit_resp' = [submit_resp EXCEPT ![r] =
                                 [code |-> 201, status |-> job[r][1].status]]
       ELSE /\ submit_resp' = [submit_resp EXCEPT ![r] = [code |-> 500, status |-> None]]
            /\ UNCHANGED << jobs_coll, jobs_cache, cache_order, bg >>
  /\ pc' = [pc EXCEPT ![r] = "returned"]
  /\ status_resp' = NoStatusResp
  /\ list_resp' = NoListResp
  /\ UNCHANGED << notJobVars, jobs_coll_present, ray_client, datasets_coll, files, request, job,
                  ray_outcome >>

\* submit_job from the insert to its return: _insert_job takes effect,
\* asyncio.create_task schedules the background task (which runs only after
\* this coroutine has returned: there is no await in between), and the 201
\* response carries the job dict as it is now (the JSONResponse is rendered
\* when it is built).
SubmitInsert(r) ==
  /\ pc[r] = "insert"
  /\ \E ok \in BOOLEAN :
       LET st == InsertJob(jobs_coll, jobs_cache, r, job[r][1], ok)
       IN  /\ jobs_coll' = st.coll
           /\ jobs_cache' = st.cache
           /\ cache_order' = st.order
  /\ bg' = [bg EXCEPT ![r] = "spawned"]
  /\ submit_resp' = [submit_resp EXCEPT ![r] = [code |-> 201, status |-> job[r][1].status]]
  /\ pc' = [pc EXCEPT ![r] = "returned"]
  /\ status_resp' = NoStatusResp
  /\ list_resp' = NoListResp
  /\ UNCHANGED << notJobVars, jobs_coll_present, ray_client, datasets_coll, files, request, job,
                  ray_outcome >>

\* ------------------------------------------------------ the Ray client
\* RayClientConfig.submit_job: the Job API, else a remote task, else None;
\* every exception is caught inside and turned into None.
RaySubmitOutcomes == {"job_api", "remote_task", "failed"}
RaySubmitJob(j, outcome) ==
  [raised |-> FALSE, id |-> IF outcome = "failed" THEN NoHandle ELSE RayHandle(j)]

\* RayClientConfig.get_job_status: a dict with a "status" key; a failed
\* query gives "unknown" or "ray_unavailable", never an exception.
RayStatusOutcomes == {"RUNNING", "unknown", "ray_unavailable"}
RayGetJobStatus(outcome) == [raised |-> FALSE, status |-> outcome]

\* ---------------------------------------------------- background driver
QueuedUpdate == [status |-> "queued"]
RunningHandleUpdate(h) == [status |-> "running", ray_job_id |-> h]
RunningUpdate == [status |-> "running"]
ErrorUpdate == [status |-> "error", error |-> "str(e)"]

\* _background_process_job, line 173: the update to queued.  An exception
\* here would reach the outer handler (186-188), whose own update to error
\* is not guarded: bg = "raised" is an exception leaving the task.
BgQueue(j) ==
  /\ bg[j] = "spawned"
  /\ \E ok \in BOOLEAN, ok2 \in BOOLEAN :
       LET u == UpdateJob(jobs_coll, jobs_cache, j, QueuedUpdate, ok)
           h == UpdateJob(u.coll, u.cache, j, ErrorUpdate, ok2)
       IN  IF u.raised
             THEN /\ jobs_coll' = h.coll
                  /\ jobs_cache' = h.cache
                  /\ bg' = [bg EXCEPT ![j] = IF h.raised THEN "raised" ELSE "done"]
             ELSE /\ jobs_coll' = u.coll
                  /\ jobs_cache' = u.cache
                  /\ bg' = [bg EXCEPT ![j] = "queued"]
  /\ status_resp' = NoStatusResp
  /\ list_resp' = NoListResp
  /\ UNCHANGED << notJobVars, jobs_coll_present, ray_client, datasets_coll, files, pc, request, job,
                  submit_resp, ray_outcome, cache_order >>

\* Lines 175-181: with a Ray client, submit the entrypoint; with a handle,
\* the first update to running, which records the handle.  Without a client
\* or a handle the task ends.  An exception inside the inner try (176-185)
\* is logged and the task ends.
BgSubmit(j) ==
  /\ bg[j] = "queued"
  /\ IF ~ray_client
       THEN /\ bg' = [bg EXCEPT ![j] = "done"]
            /\ UNCHANGED << jobs_coll, jobs_cache, ray_outcome >>
       ELSE \E outcome \in RaySubmitOutcomes, ok \in BOOLEAN :
              LET sub == RaySubmitJob(j, outcome)
                  u == UpdateJob(jobs_coll, jobs_cache, j, RunningHandleUpdate(sub.id), ok)
              IN  IF sub.raised
                    THEN /\ bg' = [bg EXCEPT ![j] = "done"]
                         /\ ray_outcome' = [ray_outcome EXCEPT ![j] = "raised"]
                         /\ UNCHANGED << jobs_coll, jobs_cache >>
                  ELSE IF sub.id = NoHandle
                    THEN /\ bg' = [bg EXCEPT ![j] = "done"]
                         /\ ray_outcome' = [ray_outcome EXCEPT ![j] = "nohandle"]
                         /\ UNCHANGED << jobs_coll, jobs_cache >>
                  ELSE /\ jobs_coll' = u.coll
                       /\ jobs_cache' = u.cache
                       /\ ray_outcome' = [ray_outcome EXCEPT ![j] = "handle"]
                       /\ bg' = [bg EXCEPT ![j] = IF u.raised THEN "done" ELSE "running"]
  /\ status_resp' = NoStatusResp
  /\ list_resp' = NoListResp
  /\ UNCHANGED << notJobVars, jobs_coll_present, ray_client, datasets_coll, files, pc, request, job,
                  submit_resp, cache_order >>

\* Lines 182-183: the second update to running, then return.
BgRunning(j) ==
  /\ bg[j] = "running"
  /\ \E ok \in BOOLEAN :
       LET u == UpdateJob(jobs_coll, jobs_cache, j, RunningUpdate, ok)
       IN  /\ jobs_coll' = u.coll
           /\ jobs_cache' = u.cache
  /\ bg' = [bg EXCEPT ![j] = "done"]
  /\ status_resp' = NoStatusResp
  /\ list_resp' = NoListResp
  /\ UNCHANGED << notJobVars, jobs_coll_present, ray_client, datasets_coll, files, pc, request, job,
                  submit_resp, ray_outcome, cache_order >>

\* ---------------------------------------------------------------- status
\* Faulty variant of JobStatusResponse: a failed backend query is not absorbed and
\* the call answers 500.
JobStatusResponsePropagates(job_id, found, outcome) ==
  IF found = <<>>
    THEN [job_id |-> job_id, code |-> 404, job |-> <<>>, enriched |-> FALSE,
          ray_status |-> None]
  ELSE IF ray_client /\ found[1].ray_job_id # NoHandle
    THEN IF outcome = "RUNNING"
           THEN [job_id |-> job_id, code |-> 200, job |-> found, enriched |-> TRUE,
                 ray_status |-> outcome]
           ELSE [job_id |-> job_id, code |-> 500, job |-> <<>>, enriched |-> FALSE,
                 ray_status |-> outcome]
  ELSE [job_id |-> job_id, code |-> 200, job |-> found, enriched |-> FALSE,
        ray_status |-> None]

\* The response of get_job_status once _get_job has answered `found`
\* (service.py 146-162): 404 without a record; with a Ray client and a
\* handle in the record, the record plus ray_status; if that query raises,
\* or there is no handle, the record alone.
JobStatusResponse(job_id, found, outcome) ==
  IF found = <<>>
    THEN [job_id |-> job_id, code |-> 404, job |-> <<>>, enriched |-> FALSE,
          ray_status |-> None]
  ELSE IF ray_client /\ found[1].ray_job_id # NoHandle
            /\ ~RayGetJobStatus(outcome).raised
    THEN [job_id |-> job_id, code |-> 200, job |-> found, enriched |-> TRUE,
          ray_status |-> RayGetJobStatus(outcome).status]
  ELSE [job_id |-> job_id, code |-> 200, job |-> found, enriched |-> FALSE,
        ray_status |-> None]

\* Faulty variant of GetJobStatus: the status call marks the job it reads as
\* completed.
GetJobStatusWritesBack(j) ==
  /\ \E ok \in BOOLEAN, outcome \in RayStatusOutcomes :
       LET u == UpdateJob(jobs_coll, jobs_cache, j, [status |-> "completed"], ok)
       IN  /\ status_resp' = JobStatusResponse(j, GetJob(jobs_coll, jobs_cache, j, ok), outcome)
           /\ jobs_coll' = u.coll
           /\ jobs_cache' = u.cache
  /\ list_resp' = NoListResp
  /\ UNCHANGED << notJobVars, jobs_coll_present, ray_client, datasets_coll,
                  files, pc, request, job, submit_resp, bg, ray_outcome, cache_order >>

\* get_job_status(job_id): one await (_get_job), then the response.
GetJobStatus(j) ==
  /\ \E ok \in BOOLEAN, outcome \in RayStatusOutcomes :
       status_resp' = JobStatusResponse(j, GetJob(jobs_coll, jobs_cache, j, ok), outcome)
  /\ list_resp' = NoListResp
  /\ UNCHANGED << notJobVars, jobs_coll_present, ray_client, jobs_coll, jobs_cache, datasets_coll,
                  files, pc, request, job, submit_resp, bg, ray_outcome, cache_order >>

\* ------------------------------------------------------------------ list
\* What a list response shows of a job: the fields the listing is selected
\* and ordered by.
Listed(job_id, rec) ==
  [job_id |-> job_id, client_code |-> rec.client_code, created_at |-> rec.created_at]

\* find({"client_code": client_code}).sort("created_at", -1): the matching
\* documents, newest first; documents of equal created_at come in any order.
FindSorted(coll, client_code) ==
  LET ids == {j \in DOMAIN coll : coll[j].client_code = client_code}
      n == Cardinality(ids)
  IN  {[i \in 1..n |-> Listed(f[i], coll[f[i]])] :
         f \in {g \in [1..n -> ids] :
                  /\ \A a, b \in 1..n : a # b => g[a] # g[b]
                  /\ \A a, b \in 1..n :
                       a < b => coll[g[a]].created_at >= coll[g[b]].created_at}}

\* list(self._jobs_cache.values()): every cached job, in insertion order.
CacheValues(cache, order) ==
  [i \in 1..Len(order) |-> Listed(order[i], cache[order[i]])]

\* FineTuningService._list_jobs: the sorted find on the collection; the
\* values of the cache when there is no collection or the cursor raises.
ListJobsResults(coll, cache, order, client_code, ok) ==
  IF jobs_coll_present /\ ok
    THEN FindSorted(coll, client_code)
    ELSE {CacheValues(cache, order)}

\* The tenants list_jobs is called for.
ListClients == {"t1", "t2"}

\* list_jobs(client_code): one await (_list_jobs), "_id" popped from every
\* job, then the 200 response.  served_from records the branch of
\* _list_jobs that produced the listing.
ListJobs(c) ==
  /\ \E ok \in BOOLEAN :
       \E listing \in ListJobsResults(jobs_coll, jobs_cache, cache_order, c, ok) :
         list_resp' = [client_code |-> c, code |-> 200,
                       served_from |-> IF jobs_coll_present /\ ok THEN "store" ELSE "cache",
                       jobs |-> listing]
  /\ status_resp' = NoStatusResp
  /\ UNCHANGED << notJobVars, jobs_coll_present, ray_client, jobs_coll, jobs_cache, datasets_coll,
                  files, pc, request, job, submit_resp, bg, ray_outcome, cache_order >>

\* ---------------------------------------------------------------- upload
\* The name _save_dataset gives the file of upload call u:
\* {uuid4().hex}_{basename of the uploaded file's name}.
SavedName(u) == "u" \o ToString(u) \o "_up.jsonl"

\* dfs_path = os.path.join(DFS_BASE, client_code, "datasets", filename)
DatasetPath(u, client_code) == "/dfs/" \o client_code \o "/datasets/" \o SavedName(u)

\* s3_key = f"{client_code}/datasets/{filename}"
S3Key(u, client_code) == client_code \o "/datasets/" \o SavedName(u)

\* str(insert_res.inserted_id) of the record of upload call u.
DatasetId(u) == "oid_u" \o ToString(u)

\* Faulty variant of SaveDataset: an exception of the S3 upload leaves
\* _save_dataset, after the file has been moved into place.
SaveDatasetMirrorFatal(u, client_code, size, disk, saved, mirrored) ==
  IF saved # "saved"
    THEN [raised |-> saved, dfs |-> None, s3 |-> None, size |-> 0, files |-> disk]
  ELSE IF ~mirrored
    THEN [raised |-> "ClientError", dfs |-> None, s3 |-> None, size |-> 0,
          files |-> (DatasetPath(u, client_code) :> size) @@ disk]
  ELSE [raised |-> None, dfs |-> DatasetPath(u, client_code), s3 |-> S3Key(u, client_code),
        size |-> size, files |-> (DatasetPath(u, client_code) :> size) @@ disk]

\* _save_dataset (190-220): the upload is copied to a temporary file and
\* moved to dfs_path; an exception on the way (saved # "saved") is logged and
\* raised again.  The S3 upload is tried when AWS_BUCKET is set; if it raises,
\* or no bucket is configured, s3_key is None (mirrored = FALSE).
SaveDataset(u, client_code, size, disk, saved, mirrored) ==
  IF saved # "saved"
    THEN [raised |-> saved, dfs |-> None, s3 |-> None, size |-> 0, files |-> disk]
    ELSE [raised |-> None, dfs |-> DatasetPath(u, client_code),
          s3 |-> IF mirrored THEN S3Key(u, client_code) ELSE None,
          size |-> size, files |-> (DatasetPath(u, client_code) :> size) @@ disk]

\* The dataset document upload_dataset inserts (232-239).
DatasetDoc(u, client_code, dfs, s3, size) ==
  [id |-> DatasetId(u), client_code |-> client_code, filename |-> SavedName(u),
   dataset_dfs |-> dfs, dataset_s3 |-> s3, size_bytes |-> size, dataset_size_bytes |-> 0]

\* upload calls are numbered in the order of their arrival.
NextUploadCall(u) ==
  /\ upload_call[u].pc = "idle"
  /\ IF u = 1 THEN TRUE ELSE upload_call[u - 1].pc # "idle"

\* upload_dataset up to the await of insert_one: _save_dataset, and the
\* response when it raised (400 for a ValueError, 500 otherwise, 255-259).
\* saved and mirrored are kept with the call: what happened to the local
\* file and to the S3 upload.
UploadSave(u) ==
  /\ NextUploadCall(u)
  /\ \E client_code \in {"t1"}, size \in UploadSizes, saved \in SaveOutcomes,
       mirrored \in BOOLEAN :
       LET res == SaveDataset(u, client_code, size, files, saved, mirrored)
           call == [NoUpload EXCEPT !.client_code = client_code, !.saved = saved,
                                    !.mirrored = mirrored, !.upload_size = size]
       IN  /\ files' = res.files
           /\ IF res.raised # None
                THEN upload_call' = [upload_call EXCEPT ![u] =
                       [call EXCEPT !.pc = "returned",
                                    !.code = IF res.raised = "ValueError" THEN 400 ELSE 500]]
                ELSE upload_call' = [upload_call EXCEPT ![u] =
                       [call EXCEPT !.pc = "record", !.dataset_dfs = res.dfs,
                                    !.dataset_s3 = res.s3, !.size_bytes = res.size]]
  /\ status_resp' = NoStatusResp
  /\ list_resp' = NoListResp
  /\ UNCHANGED << cfgVars, depVars, jobs_coll_present, ray_client, jobs_coll, jobs_cache,
                  datasets_coll, pc, request, job, submit_resp, bg, ray_outcome, cache_order >>

\* upload_dataset from the await of insert_one: the record is written when
\* there is a database and insert_one does not raise (ok); otherwise
\* dataset_id stays None.  Either way the response is 201.
UploadRecord(u) ==
  /\ upload_call[u].pc = "record"
  /\ \E ok \in BOOLEAN :
       LET c == upload_call[u]
       IN  IF jobs_coll_present /\ ok
             THEN /\ datasets_coll' =
                       Append(datasets_coll,
                              DatasetDoc(u, c.client_code, c.dataset_dfs, c.dataset_s3, c.size_bytes))
                  /\ upload_call' = [upload_call EXCEPT ![u] =
                       [c EXCEPT !.pc = "returned", !.code = 201, !.dataset_id = DatasetId(u)]]
             ELSE /\ UNCHANGED datasets_coll
                  /\ upload_call' = [upload_call EXCEPT ![u] =
                       [c EXCEPT !.pc = "returned", !.code = 201]]
  /\ status_resp' = NoStatusResp
  /\ list_resp' = NoListResp
  /\ UNCHANGED << cfgVars, depVars, jobs_coll_present, ray_client, jobs_coll, jobs_cache,
                  files, pc, request, job, submit_resp, bg, ray_outcome, cache_order >>

\* ------------------------------------------------- configuration cache
\* (src/app/database/redis.py, AsyncRedisClientConfigManager)
\* The Python values found in configuration documents, each named by its
\* text; the documents hold JSON values only.  DictItems gives the items of
\* the values that are dicts.
AcmeDoc == "{client_code:acme,a:{b:1}}"
DefaultDoc == "{client_code:default,a:{b:2}}"

DictItems ==
  (AcmeDoc :> (("client_code" :> "acme") @@ ("a" :> "{b:1}"))) @@
  (DefaultDoc :> (("client_code" :> "default") @@ ("a" :> "{b:2}"))) @@
  ("{b:1}" :> ("b" :> "1")) @@
  ("{b:2}" :> ("b" :> "2"))

\* isinstance(data, dict)
IsDict(data) == data \in DOMAIN DictItems

\* data.get(key)
DictGet(data, key) ==
  IF key \in DOMAIN DictItems[data] THEN DictItems[data][key] ELSE None

\* attr_key.split(".")
SplitDot(attr_key) ==
  CASE attr_key = "a.b" -> << "a", "b" >>
    [] attr_key = "a.b.c" -> << "a", "b", "c" >>
    [] attr_key = "a" -> << "a" >>
    [] attr_key = "" -> << "" >>
    [] OTHER -> << attr_key >>

\* The loop of get_nested over the keys.
RECURSIVE Traverse(_, _)
Traverse(data, keys) ==
  IF keys = <<>> THEN data
  ELSE IF ~IsDict(data) THEN None
  ELSE Traverse(DictGet(data, Head(keys)), Tail(keys))

\* get_nested(data, attr_key); attr_key = None has no split: AttributeError.
GetNested(data, attr_key) ==
  [raised |-> attr_key = None,
   value |-> IF attr_key = None THEN None ELSE Traverse(data, SplitDot(attr_key))]

\* json.dumps(config_data): the text of a value.
DumpJson(value) == [parses |-> TRUE, text_of |-> value]

\* A cached string that is no JSON text.
CorruptText == [parses |-> FALSE, text_of |-> "{a:"]

\* Faulty variant of LoadJson: a string that is no JSON text is returned as
\* it is.
LoadJsonLenient(text) == [raised |-> FALSE, value |-> text.text_of]

\* json.loads(cached): the value of a JSON text; JSONDecodeError otherwise.
LoadJson(text) ==
  [raised |-> ~text.parses, value |-> IF text.parses THEN text.text_of ELSE None]

\* Faulty variant of RedisSet: the write is lost.
RedisSetLost(r, key, value, writer) == r

\* self._redis.set(key, value): the key holds the value and no expiry (SET
\* discards the TTL of the key).  writer is 1 for an entry written by the
\* call under way or just ended and 0 for any other.
RedisSet(r, key, value, writer) ==
  (key :> [value |-> value, expires |-> FALSE, writer |-> writer]) @@ r

\* self._redis.expire(key, ttl): the key, if it exists, gets the TTL.
RedisExpire(r, key) ==
  IF key \in DOMAIN r THEN [r EXCEPT ![key].expires = TRUE] ELSE r

\* self._redis.delete(key)
RedisDelete(r, key) ==
  IF DOMAIN r \ {key} = {} THEN <<>> ELSE [k \in DOMAIN r \ {key} |-> r[k]]

\* _load_client_config_from_mongo: find_one({"client_code": client_code});
\* an exception is caught and None returned.
LoadClientConfigFromMongo(coll, client_code, ok) ==
  IF ok /\ client_code \in DOMAIN coll THEN coll[client_code] ELSE None

\* The tenants and attribute paths get_client_config is called with.
ConfigTenants == {"acme", "ghost", "default"}
AttrPaths == {None, "", "a.b", "a.b.c"}

\* A get_client_config call that has not been made.  code is the
\* client_code of the innermost nested call, depth the number of nested
\* calls; reads counts the find_one calls, hit tells that the result came
\* from the cache, cache_failed / store_failed that a Redis / MongoDB
\* operation of the call raised, expired the keys the TTL removed between
\* the end of the call before and the end of this one, cached what the
\* call's own redis.get found under client_code: nothing ("absent"), a JSON
\* text ("parsed") or another string ("corrupt"); "unread" before the read
\* and when it raised.
NoCall ==
  [pc |-> "idle", client_code |-> None, attrs |-> None, code |-> None,
   depth |-> 0, result |-> None, error |-> None, reads |-> 0, hit |-> FALSE,
   cache_failed |-> FALSE, store_failed |-> FALSE, expired |-> {}, cached |-> "unread"]

\* What redis.get(key) finds.
Cached(r, key) ==
  IF key \notin DOMAIN r THEN "absent"
  ELSE IF r[key].value.parses THEN "parsed" ELSE "corrupt"

\* What is kept of a call that ended: its arguments and its outcome; found
\* tells that it returned the tenant's own document, read from the store.
Ended(g) ==
  [pc |-> g.pc, client_code |-> g.client_code, attrs |-> g.attrs,
   result |-> g.result, found |-> g.pc = "done" /\ ~g.hit /\ g.depth = 0]

\* The entries of Redis when a new call begins: none is written by it.
Earlier(r) == [k \in DOMAIN r |-> [r[k] EXCEPT !.writer = 0]]

\* The configuration cache with one stored document and no call.
ConfigAtRest ==
  /\ config_coll = ("acme" :> AcmeDoc)
  /\ redis = <<>>
  /\ get_call = NoCall
  /\ prev_call = Ended(NoCall)
  /\ ttl_expired = {}

\* The configuration cache after construction: acme has a document, ghost
\* has none, default has one or none; Redis is empty or holds a corrupt
\* entry for acme.
ConfigInit ==
  /\ config_coll \in {("acme" :> AcmeDoc),
                      ("acme" :> AcmeDoc) @@ ("default" :> DefaultDoc)}
  /\ redis \in {<<>>,
                ("acme" :> [value |-> CorruptText, expires |-> FALSE, writer |-> 0])}
  /\ get_call = NoCall
  /\ prev_call = Ended(NoCall)
  /\ ttl_expired = {}

\* get_client_config(client_code, attrs) is called, after the call before it
\* has ended.
CfgBegin ==
  /\ get_call.pc \in {"idle", "done", "raised"}
  /\ \E t \in ConfigTenants, a \in AttrPaths :
       get_call' = [NoCall EXCEPT !.pc = "get", !.client_code = t, !.attrs = a,
                                  !.code = t]
  /\ prev_call' = Ended(get_call)
  /\ redis' = Earlier(redis)
  /\ UNCHANGED << jobVars, upload_call, depVars, config_coll, ttl_expired >>

\* Lines 64-73: cached = await self._redis.get(client_code); a truthy
\* cached is decoded and traversed and the call returns; any exception in
\* the block leads to the eviction of line 74.
CfgRedisGet ==
  /\ get_call.pc = "get"
  /\ \E ok \in BOOLEAN :
       LET g == IF get_call.depth = 0 /\ ok
                  THEN [get_call EXCEPT !.cached = Cached(redis, get_call.code)]
                  ELSE get_call
       IN  IF ~ok
             THEN /\ get_call' = [g EXCEPT !.pc = "delete", !.cache_failed = TRUE]
                  /\ UNCHANGED ttl_expired
           ELSE IF g.code \notin DOMAIN redis
             THEN /\ get_call' = [g EXCEPT !.pc = "load"]
                  /\ UNCHANGED ttl_expired
           ELSE LET parsed == LoadJson(redis[g.code].value)
                    nested == GetNested(parsed.value, g.attrs)
                IN  IF parsed.raised \/ nested.raised
                      THEN /\ get_call' = [g EXCEPT !.pc = "delete"]
                           /\ UNCHANGED ttl_expired
                      ELSE /\ get_call' = [g EXCEPT !.pc = "done", !.hit = TRUE,
                                                    !.result = nested.value,
                                                    !.expired = ttl_expired]
                           /\ ttl_expired' = {}
  /\ UNCHANGED << jobVars, upload_call, depVars, config_coll, redis, prev_call >>

\* Line 74, in the except clause: await self._redis.delete(client_code); an
\* exception here leaves get_client_config.
CfgRedisDelete ==
  /\ get_call.pc = "delete"
  /\ \E ok \in BOOLEAN :
       IF ok
         THEN /\ redis' = RedisDelete(redis, get_call.code)
              /\ get_call' = [get_call EXCEPT !.pc = "load"]
              /\ UNCHANGED ttl_expired
         ELSE /\ get_call' = [get_call EXCEPT !.pc = "raised", !.error = "RedisError",
                                              !.cache_failed = TRUE,
                                              !.expired = ttl_expired]
              /\ ttl_expired' = {}
              /\ UNCHANGED redis
  /\ UNCHANGED << jobVars, upload_call, depVars, config_coll, prev_call >>

\* Lines 76-77 and 84: the document is loaded; if there is one the call goes
\* on to write it to Redis, otherwise it awaits
\* get_client_config('default', attrs), one coroutine deeper.
CfgLoadFromMongo ==
  /\ get_call.pc = "load"
  /\ \E ok \in BOOLEAN :
       LET g == get_call
           config_data == LoadClientConfigFromMongo(config_coll, g.code, ok)
           read == [g EXCEPT !.reads = @ + 1, !.store_failed = @ \/ ~ok]
       IN  IF config_data # None
             THEN /\ get_call' = [read EXCEPT !.pc = "set"]
                  /\ UNCHANGED ttl_expired
           ELSE IF g.depth < RecursionLimit
             THEN /\ get_call' = [read EXCEPT !.pc = "get", !.code = "default",
                                              !.depth = @ + 1]
                  /\ UNCHANGED ttl_expired
           ELSE /\ get_call' = [read EXCEPT !.pc = "raised", !.error = "RecursionError",
                                            !.expired = ttl_expired]
                /\ ttl_expired' = {}
  /\ UNCHANGED << jobVars, upload_call, depVars, config_coll, redis, prev_call >>

\* Faulty variant of CfgRedisSet: the document is written under the key of
\* the tenant the outermost call was made for.
CfgRedisSetCallerKey ==
  /\ get_call.pc = "set"
  /\ \E ok \in BOOLEAN :
       LET g == get_call
       IN  IF ok
             THEN /\ redis' = RedisSet(redis, g.client_code, DumpJson(config_coll[g.code]), 1)
                  /\ get_call' = [g EXCEPT !.pc = "expire"]
                  /\ UNCHANGED ttl_expired
             ELSE /\ get_call' = [g EXCEPT !.pc = "raised", !.error = "RedisError",
                                           !.cache_failed = TRUE,
                                           !.expired = ttl_expired]
                  /\ ttl_expired' = {}
                  /\ UNCHANGED redis
  /\ UNCHANGED << jobVars, upload_call, depVars, config_coll, prev_call >>

\* Line 78: await self._redis.set(client_code, json.dumps(config_data)),
\* outside any try.
CfgRedisSet ==
  /\ get_call.pc = "set"
  /\ \E ok \in BOOLEAN :
       LET g == get_call
       IN  IF ok
             THEN /\ redis' = RedisSet(redis, g.code, DumpJson(config_coll[g.code]), 1)
                  /\ get_call' = [g EXCEPT !.pc = "expire"]
                  /\ UNCHANGED ttl_expired
             ELSE /\ get_call' = [g EXCEPT !.pc = "raised", !.error = "RedisError",
                                           !.cache_failed = TRUE,
                                           !.expired = ttl_expired]
                  /\ ttl_expired' = {}
                  /\ UNCHANGED redis
  /\ UNCHANGED << jobVars, upload_call, depVars, config_coll, prev_call >>

\* Lines 79-83: await self._redis.expire(client_code, ttl), outside any try,
\* then the value at attrs of config_data, or config_data itself.
CfgRedisExpire ==
  /\ get_call.pc = "expire"
  /\ \E ok \in BOOLEAN :
       LET g == get_call
           config_data == config_coll[g.code]
       IN  IF ok
             THEN /\ redis' = RedisExpire(redis, g.code)
                  /\ get_call' = [g EXCEPT
                                    !.pc = "done",
                                    !.result = IF Truthy(g.attrs)
                                                 THEN GetNested(config_data, g.attrs).value
                                                 ELSE config_data,
                                    !.expired = ttl_expired]
             ELSE /\ get_call' = [g EXCEPT !.pc = "raised", !.error = "RedisError",
                                           !.cache_failed = TRUE,
                                           !.expired = ttl_expired]
                  /\ UNCHANGED redis
  /\ ttl_expired' = {}
  /\ UNCHANGED << jobVars, upload_call, depVars, config_coll, prev_call >>

\* Redis removes a key whose TTL has run out.
TtlExpire(k) ==
  /\ k \in DOMAIN redis
  /\ redis[k].expires
  /\ redis' = RedisDelete(redis, k)
  /\ ttl_expired' = ttl_expired \cup {k}
  /\ UNCHANGED << jobVars, upload_call, depVars, config_coll, get_call, prev_call >>

\* ------------------------------------------- deployment and routing
\* (src/app/services/inference/service.py, InferenceService, and
\* src/app/services/inference/controller.py)
\* req.model_id.split("/")[-1]
LastSegment(model_id) ==
  CASE model_id = "org/m1" -> "m1"
    [] model_id = "org/m2" -> "m2"
    [] OTHER -> model_id

\* The names deploy_base_model and deploy_fine_tuned_model derive (144-146,
\* 174-177) and the service URL of _save_routing (114).
BaseDeploymentName(model_id) == "vllm-base-" \o LastSegment(model_id)
FineTunedDeploymentName(client_code, base_model) ==
  "vllm-ft-" \o client_code \o "-" \o base_model
ServiceName(deployment_name) == deployment_name \o "-svc"
ScaledObjectName(deployment_name) == deployment_name \o "-scaledobject"
PvcName(client_code) == "pvc-" \o client_code
ServiceUrl(service_name) == "http://" \o service_name \o ".default.svc.cluster.local:8000"

\* The requests of the deploy calls: one base model, and fine-tuned models
\* of two tenants, one of them with two models.
BaseRequests == {[kind |-> "base", client_code |-> "t1", model |-> "org/m1"]}

FineTunedRequests ==
  {[kind |-> "fine_tuned", client_code |-> "t1", model |-> "m1"],
   [kind |-> "fine_tuned", client_code |-> "t1", model |-> "m2"],
   [kind |-> "fine_tuned", client_code |-> "t2", model |-> "m1"]}

\* Fine-tuned requests of two tenants whose client_code or base_model holds
\* a hyphen.
HyphenRequests ==
  {[kind |-> "fine_tuned", client_code |-> "a-b", model |-> "c"],
   [kind |-> "fine_tuned", client_code |-> "a", model |-> "b-c"]}

NoRequest == [kind |-> None, client_code |-> None, model |-> None]

\* deployment_name and model_name of a request.
DeploymentName(req) ==
  IF req.kind = "base" THEN BaseDeploymentName(req.model)
  ELSE FineTunedDeploymentName(req.client_code, req.model)
RoutedModelName(req) ==
  IF req.kind = "base" THEN LastSegment(req.model) ELSE req.model

\* Faulty variant of Create: an object that exists is left as it is and the
\* call succeeds.
CreateOrKeep(objects, name, fails) ==
  IF name \in objects THEN [objects |-> objects, status |-> 0]
  ELSE IF fails THEN [objects |-> objects, status |-> 500]
  ELSE [objects |-> objects \cup {name}, status |-> 0]

\* A create call of the Kubernetes client on the objects of one kind: the
\* API answers 409 for a name that exists; otherwise the object is created
\* unless the call fails (fails) with another error.  status 0: no error.
Create(objects, name, fails) ==
  IF name \in objects THEN [objects |-> objects, status |-> 409]
  ELSE IF fails THEN [objects |-> objects, status |-> 500]
  ELSE [objects |-> objects \cup {name}, status |-> 0]

\* The points at which the backend can fail one deploy call.
FailPoints == {"nowhere", "pvc", "deployment", "service", "scaledobject"}

\* Faulty variant of ApplyResources: a failed create is logged and the next
\* object is created all the same.
ApplyResourcesIgnoringErrors(cluster, deployment_name, fail_at) ==
  LET d == Create(cluster.deployments, deployment_name, fail_at = "deployment")
      s == Create(cluster.services, ServiceName(deployment_name), fail_at = "service")
      o == Create(cluster.scaledobjects, ScaledObjectName(deployment_name),
                  fail_at = "scaledobject")
  IN  [k8s |-> [cluster EXCEPT !.deployments = d.objects, !.services = s.objects,
                           !.scaledobjects = o.objects],
       status |-> 0]

\* The try block of lines 157-163 / 208-214: the deployment, the service and
\* the scaled object are created in this order by blocking calls; the first
\* ApiException ends the block, and what was created stays.
ApplyResources(cluster, deployment_name, fail_at) ==
  LET d == Create(cluster.deployments, deployment_name, fail_at = "deployment")
      k1 == [cluster EXCEPT !.deployments = d.objects]
      s == Create(k1.services, ServiceName(deployment_name), fail_at = "service")
      k2 == [k1 EXCEPT !.services = s.objects]
      o == Create(k2.scaledobjects, ScaledObjectName(deployment_name),
                  fail_at = "scaledobject")
      k3 == [k2 EXCEPT !.scaledobjects = o.objects]
  IN  IF d.status # 0 THEN [k8s |-> k1, status |-> d.status]
      ELSE IF s.status # 0 THEN [k8s |-> k2, status |-> s.status]
      ELSE IF o.status # 0 THEN [k8s |-> k3, status |-> o.status]
      ELSE [k8s |-> k3, status |-> 0]

\* Faulty variant of CreatePvc: every ApiException of the volume claim is
\* passed over.
CreatePvcAnyErrorPassed(cluster, client_code, fail_at) ==
  LET p == Create(cluster.pvcs, PvcName(client_code), fail_at = "pvc")
  IN  [k8s |-> [cluster EXCEPT !.pvcs = p.objects], status |-> 0]

\* Lines 189-194: the volume claim is created; a 409 is passed over, any
\* other ApiException is raised.
CreatePvc(cluster, client_code, fail_at) ==
  LET p == Create(cluster.pvcs, PvcName(client_code), fail_at = "pvc")
  IN  [k8s |-> [cluster EXCEPT !.pvcs = p.objects],
       status |-> IF p.status = 409 THEN 0 ELSE p.status]

\* Faulty variant of RoutingDoc: the entry of a base model carries the
\* client_code of the request.
RoutingDocKeepsClient(req) ==
  [deployment_name |-> DeploymentName(req),
   service_name |-> ServiceName(DeploymentName(req)),
   service_url |-> ServiceUrl(ServiceName(DeploymentName(req))),
   model_name |-> RoutedModelName(req),
   client_code |-> req.client_code,
   is_base |-> req.kind = "base"]

\* The document _save_routing sets (111-120), without its timestamps.
RoutingDoc(req) ==
  [deployment_name |-> DeploymentName(req),
   service_name |-> ServiceName(DeploymentName(req)),
   service_url |-> ServiceUrl(ServiceName(DeploymentName(req))),
   model_name |-> RoutedModelName(req),
   client_code |-> IF req.kind = "base" THEN "" ELSE req.client_code,
   is_base |-> req.kind = "base"]

\* update_one({"deployment_name": name}, {"$set": doc}, upsert=True) on the
\* collection in natural order.
Upsert(coll, doc) ==
  IF \E i \in 1..Len(coll) : coll[i].deployment_name = doc.deployment_name
    THEN [i \in 1..Len(coll) |->
            IF coll[i].deployment_name = doc.deployment_name THEN doc ELSE coll[i]]
    ELSE Append(coll, doc)

\* _save_routing: the upsert; an exception is logged and the method returns.
SaveRouting(coll, req, ok) ==
  [coll |-> IF ok THEN Upsert(coll, RoutingDoc(req)) ELSE coll, raised |-> FALSE]

\* coll.find_one of _find_routing: of the documents at the positions hits,
\* the first in natural order, or None (<<>>).
FindFirst(coll, hits) ==
  IF hits = {} THEN <<>>
  ELSE << coll[CHOOSE i \in hits : \A k \in hits : i <= k] >>

\* Faulty variant of FindTenantEntry: the query leaves out client_code.
FindTenantEntryAnyClient(coll, model_name, client_code) ==
  FindFirst(coll, {i \in 1..Len(coll) :
                     coll[i].model_name = model_name /\ ~coll[i].is_base})

\* find_one({"model_name": model_name, "client_code": client_code})
FindTenantEntry(coll, model_name, client_code) ==
  FindFirst(coll, {i \in 1..Len(coll) :
                     coll[i].model_name = model_name /\ coll[i].client_code = client_code})

\* Faulty variant of FindBaseEntry: the query leaves out is_base.
FindBaseEntryAnyKind(coll, model_name) ==
  FindFirst(coll, {i \in 1..Len(coll) : coll[i].model_name = model_name})

\* find_one({"model_name": model_name, "is_base": True})
FindBaseEntry(coll, model_name) ==
  FindFirst(coll, {i \in 1..Len(coll) :
                     coll[i].model_name = model_name /\ coll[i].is_base})

\* The models and tenants (header X-User-ID, None when absent) of the infer
\* calls, and what the downstream POST gives: a status code or an exception.
InferModels == {"m1", "m2"}
InferClients == {None, "t1", "t2"}
ForwardOutcomes == {"200", "503", "timeout"}

NoDeploy == [pc |-> "idle", req |-> NoRequest, fail_at |-> "nowhere", status |-> 0,
             code |-> 0, created |-> {}]
NoInfer == [pc |-> "idle", model_name |-> None, client_code |-> None, target |-> None,
            code |-> 0, lookup_failed |-> FALSE, table |-> <<>>]

\* Every object of the cluster, by name.
Objects(c) == c.pvcs \cup c.deployments \cup c.services \cup c.scaledobjects

\* No object in the cluster, no routing entry, no call.
DeployInit ==
  /\ k8s = [pvcs |-> {}, deployments |-> {}, services |-> {}, scaledobjects |-> {}]
  /\ model_routing = <<>>
  /\ deploy_call = [d \in Deploys |-> NoDeploy]
  /\ infer_call = NoInfer

\* The deploy calls are numbered in the order in which they arrive.
NextDeployCall(d) ==
  /\ deploy_call[d].pc = "idle"
  /\ \A e \in Deploys : e < d => deploy_call[e].pc # "idle"

\* The end of the blocking Kubernetes calls of a deploy call: an exception
\* leaves the method and the controller answers 500 (controller.py 12-24),
\* otherwise the call goes on to _save_routing.
DeployApplied(d, req, fail_at, res) ==
  /\ k8s' = res.k8s
  /\ deploy_call' = [deploy_call EXCEPT ![d] =
       [pc |-> IF res.status # 0 THEN "failed" ELSE "saving",
        req |-> req, fail_at |-> fail_at, status |-> res.status,
        code |-> IF res.status # 0 THEN 500 ELSE 0,
        created |-> Objects(res.k8s) \ Objects(k8s)]]
  /\ UNCHANGED << jobVars, upload_call, cfgVars, model_routing, infer_call >>

\* deploy_base_model up to the await of _save_routing.
DeployBase(d) ==
  /\ NextDeployCall(d)
  /\ \E req \in BaseRequests, fail_at \in FailPoints \ {"pvc"} :
       DeployApplied(d, req, fail_at,
                     ApplyResources(k8s, DeploymentName(req), fail_at))

\* deploy_fine_tuned_model up to the await of _save_routing.
DeployFineTunedWith(d, requests) ==
  /\ NextDeployCall(d)
  /\ \E req \in requests, fail_at \in FailPoints :
       LET pvc == CreatePvc(k8s, req.client_code, fail_at)
       IN  DeployApplied(d, req, fail_at,
                         IF pvc.status # 0 THEN pvc
                         ELSE ApplyResources(pvc.k8s, DeploymentName(req), fail_at))

DeployFineTuned(d) == DeployFineTunedWith(d, FineTunedRequests)

\* The fine-tuned deploy calls of the tenants a-b and a.
DeployHyphenated(d) == DeployFineTunedWith(d, HyphenRequests)

\* The await of _save_routing and the return of {"status": "deployed",
\* "deployment": deployment_name}.  The upsert is one step here: in the runs
\* without ObjectsRemoved the second create of a deployment name is answered
\* 409, so no two upserts of one deployment_name are in flight together.
DeploySaveRouting(d) ==
  /\ deploy_call[d].pc = "saving"
  /\ \E ok \in BOOLEAN :
       LET saved == SaveRouting(model_routing, deploy_call[d].req, ok)
       IN  /\ model_routing' = saved.coll
           /\ deploy_call' = [deploy_call EXCEPT
                ![d].pc = IF saved.raised THEN "failed" ELSE "returned",
                ![d].code = IF saved.raised THEN 500 ELSE 200]
  /\ UNCHANGED << jobVars, upload_call, cfgVars, k8s, infer_call >>

\* Someone removes the deployment deployment_name with its service and its
\* scaled object from the cluster (the service itself has no operation that
\* deletes an object, so a deployment is only ever removed from outside).
ObjectsRemoved(deployment_name) ==
  /\ deployment_name \in k8s.deployments
  /\ k8s' = [k8s EXCEPT !.deployments = @ \ {deployment_name},
                        !.services = @ \ {ServiceName(deployment_name)},
                        !.scaledobjects = @ \ {ScaledObjectName(deployment_name)}]
  /\ UNCHANGED << jobVars, upload_call, cfgVars, model_routing, deploy_call, infer_call >>

\* update_one(filter, {"$set": doc}, upsert=True) as the server runs it when
\* other upserts are in flight: first the filter {"deployment_name": name} is
\* matched against the collection.  model_routing has no unique index, so
\* the insert that follows a failed match is not checked against an insert
\* made in between.  An exception of update_one is logged and the deploy
\* call returns "deployed" (122-123).
UpsertMatch(d) ==
  /\ deploy_call[d].pc = "saving"
  /\ \E ok \in BOOLEAN :
       LET name == DeploymentName(deploy_call[d].req)
           matched == \E i \in 1..Len(model_routing) :
                        model_routing[i].deployment_name = name
       IN  deploy_call' = [deploy_call EXCEPT
             ![d].pc = IF ~ok THEN "returned"
                       ELSE IF matched THEN "upsert_update" ELSE "upsert_insert",
             ![d].code = IF ~ok THEN 200 ELSE 0]
  /\ UNCHANGED << jobVars, upload_call, cfgVars, k8s, model_routing, infer_call >>

\* The write of the upsert: the matched document gets the fields of doc, or
\* doc is inserted; then _save_routing returns and the deploy call returns
\* "deployed".
UpsertWrite(d) ==
  /\ deploy_call[d].pc \in {"upsert_update", "upsert_insert"}
  /\ model_routing' = IF deploy_call[d].pc = "upsert_update"
                        THEN Upsert(model_routing, RoutingDoc(deploy_call[d].req))
                        ELSE Append(model_routing, RoutingDoc(deploy_call[d].req))
  /\ deploy_call' = [deploy_call EXCEPT ![d].pc = "returned", ![d].code = 200]
  /\ UNCHANGED << jobVars, upload_call, cfgVars, k8s, infer_call >>

\* infer_proxy is called; _find_routing makes its first find_one when there
\* is a client_code (129-132).  An exception of find_one ends the lookup
\* with None (136-138) and infer_proxy answers 404 (226-227).
InferBegin ==
  /\ infer_call.pc \in {"idle", "done"}
  /\ \E m \in InferModels, c \in InferClients, ok \in BOOLEAN :
       LET call == [NoInfer EXCEPT !.model_name = m, !.client_code = c,
                                   !.table = model_routing]
           doc == FindTenantEntry(model_routing, m, c)
       IN  IF ~Truthy(c)
             THEN infer_call' = [call EXCEPT !.pc = "base"]
           ELSE IF ~ok
             THEN infer_call' = [call EXCEPT !.pc = "done", !.code = 404,
                                             !.lookup_failed = TRUE]
           ELSE IF doc # <<>>
             THEN infer_call' = [call EXCEPT !.pc = "forward",
                                             !.target = doc[1].service_url]
           ELSE infer_call' = [call EXCEPT !.pc = "base"]
  /\ UNCHANGED << jobVars, upload_call, cfgVars, k8s, model_routing, deploy_call >>

\* Lines 133-135: the find_one for the base entry.
InferFindBase ==
  /\ infer_call.pc = "base"
  /\ \E ok \in BOOLEAN :
       LET doc == FindBaseEntry(model_routing, infer_call.model_name)
       IN  IF ~ok
             THEN infer_call' = [infer_call EXCEPT !.pc = "done", !.code = 404,
                                                   !.lookup_failed = TRUE]
           ELSE IF doc # <<>>
             THEN infer_call' = [infer_call EXCEPT !.pc = "forward",
                                                   !.target = doc[1].service_url]
           ELSE infer_call' = [infer_call EXCEPT !.pc = "done", !.code = 404]
  /\ UNCHANGED << jobVars, upload_call, cfgVars, k8s, model_routing, deploy_call >>

\* Lines 229-234: the POST to target + "/predict"; the downstream status is
\* returned, an exception becomes the controller's 500.
InferForward ==
  /\ infer_call.pc = "forward"
  /\ \E outcome \in ForwardOutcomes :
       infer_call' = [infer_call EXCEPT
                        !.pc = "done",
                        !.code = CASE outcome = "200" -> 200
                                   [] outcome = "503" -> 503
                                   [] OTHER -> 500]
  /\ UNCHANGED << jobVars, upload_call, cfgVars, k8s, model_routing, deploy_call >>

\* ------------------------------------------------------------------ Init
Init == JobsInit /\ ConfigAtRest /\ DeployInit

\* ------------------------------------------------------------------ Next
Next ==
  \E j \in Jobs :
    \/ SubmitResolve(j)
    \/ SubmitInsert(j)
    \/ BgQueue(j)
    \/ BgSubmit(j)
    \/ BgRunning(j)
    \/ GetJobStatus(j)

Spec == Init /\ [][Next]_vars

\* One submit call with every kind of input, its background task and the
\* status reads.
NextInputs ==
  \/ SubmitAny(1)
  \/ SubmitInsert(1)
  \/ BgQueue(1)
  \/ BgSubmit(1)
  \/ BgRunning(1)
  \/ GetJobStatus(1)

SpecInputs == Init /\ [][NextInputs]_vars

\* Submit calls at any time of the clock and the list calls of two tenants.
NextList ==
  \/ \E r \in Jobs : SubmitTimed(r) \/ SubmitInsert(r)
  \/ \E c \in ListClients : ListJobs(c)

SpecList == Init /\ [][NextList]_vars

\* The whole life of the jobs: submit calls, their background tasks, and
\* the status and list reads.
NextStore ==
  \/ \E j \in Jobs :
       \/ SubmitResolve(j)
       \/ SubmitInsert(j)
       \/ BgQueue(j)
       \/ BgSubmit(j)
       \/ BgRunning(j)
       \/ GetJobStatus(j)
  \/ \E c \in ListClients : ListJobs(c)

SpecStore == Init /\ [][NextStore]_vars

\* Submit calls that resolve references to catalogued datasets.
InitResolve == JobsInitWith(OverlappingCatalog) /\ ConfigAtRest /\ DeployInit

NextResolve == \E r \in Jobs : SubmitCatalogued(r) \/ SubmitInsert(r)

SpecResolve == InitResolve /\ [][NextResolve]_vars

\* The upload_dataset calls.
NextUpload == \E u \in Uploads : UploadSave(u) \/ UploadRecord(u)

SpecUpload == Init /\ [][NextUpload]_vars

\* The get_client_config calls, one after the other, and the TTL.
InitConfig == JobsAtRest /\ ConfigInit /\ DeployInit

NextConfig ==
  \/ CfgBegin
  \/ CfgRedisGet
  \/ CfgRedisDelete
  \/ CfgLoadFromMongo
  \/ CfgRedisSet
  \/ CfgRedisExpire
  \/ \E k \in ConfigTenants : TtlExpire(k)

SpecConfig == InitConfig /\ [][NextConfig]_vars

\* The deploy calls and the infer calls, their steps interleaved.
InitDeploy == JobsAtRest /\ ConfigAtRest /\ DeployInit

NextDeploy ==
  \/ \E d \in Deploys : DeployBase(d) \/ DeployFineTuned(d) \/ DeploySaveRouting(d)
  \/ InferBegin
  \/ InferFindBase
  \/ InferForward

SpecDeploy == InitDeploy /\ [][NextDeploy]_vars

\* Deploy calls whose upserts overlap: a deployment is removed from the
\* cluster while the call that created it is still writing its routing
\* entry, and is deployed again.
NextRedeploy ==
  \/ \E d \in Deploys :
       DeployBase(d) \/ DeployFineTuned(d) \/ UpsertMatch(d) \/ UpsertWrite(d)
  \/ \E e \in BaseRequests \cup FineTunedRequests : ObjectsRemoved(DeploymentName(e))

SpecRedeploy == InitDeploy /\ [][NextRedeploy]_vars

\* Fine-tuned deploy calls of tenants with hyphenated names, and deployments
\* removed from outside.
NextNames ==
  \/ \E d \in Deploys : DeployHyphenated(d) \/ DeploySaveRouting(d)
  \/ \E e \in HyphenRequests : ObjectsRemoved(DeploymentName(e))

SpecNames == InitDeploy /\ [][NextNames]_vars

\* ============================================================== claims
\* The record of job j, which is in the collection or in the cache.
Stored(j) == j \in DOMAIN jobs_coll \/ j \in DOMAIN jobs_cache
Record(j) == IF j \in DOMAIN jobs_coll THEN jobs_coll[j] ELSE jobs_cache[j]
PersistedStatus(j) == IF Stored(j) THEN Record(j).status ELSE "absent"

StatusRank(s) ==
  CASE s = "absent" -> 0
    [] s = "submitted" -> 1
    [] s = "queued" -> 2
    [] s = "running" -> 3
    [] OTHER -> 4

\* C1: in every step the persisted status of every job stays or moves
\* forward in submitted, queued, running, (completed|error), and never goes
\* from submitted straight to running.
C1_StatusOrder ==
  [][\A j \in Jobs :
       /\ StatusRank(PersistedStatus(j)') >= StatusRank(PersistedStatus(j))
       /\ ~(PersistedStatus(j) = "submitted" /\ PersistedStatus(j)' = "running")]_vars

\* C2: the step in which a submit call returns 201 leaves the job persisted
\* with status submitted, returns status submitted and leaves the driver
\* scheduled but not started; a step that moves a persisted status to queued
\* or running is a step of the driver, taken after submit returned.
C2_SubmitReturnsSubmitted ==
  [][\A r \in Jobs :
       /\ (pc[r] # "returned" /\ pc'[r] = "returned" /\ submit_resp'[r].code = 201)
            => /\ submit_resp'[r].status = "submitted"
               /\ PersistedStatus(r)' = "submitted"
               /\ bg'[r] = "spawned"
       /\ (PersistedStatus(r)' # PersistedStatus(r)
             /\ PersistedStatus(r)' \in {"queued", "running"})
            => /\ pc[r] = "returned"
               /\ bg[r] \in {"spawned", "queued", "running"}
               /\ bg'[r] # bg[r]]_vars

\* A submit call has returned 201 and its driver has not started.
C2_Witness ==
  \E r \in Jobs :
    /\ submit_resp[r].code = 201
    /\ bg[r] = "spawned"
    /\ PersistedStatus(r) = "submitted"

\* C3: no record has status running without a handle, and once the driver
\* of a job whose submission Ray accepted has finished, the record (and the
\* record a status call returns) is running and carries that handle.
C3_RunningHasHandle ==
  \A j \in Jobs :
    /\ (Stored(j) /\ Record(j).status = "running") => Record(j).ray_job_id # NoHandle
    /\ (bg[j] = "done" /\ ray_outcome[j] = "handle")
         => /\ Stored(j)
            /\ Record(j).status = "running"
            /\ Record(j).ray_job_id = RayHandle(j)
            /\ (status_resp.job_id = j
                  => /\ status_resp.code = 200
                     /\ status_resp.job[1].status = "running"
                     /\ status_resp.job[1].ray_job_id = RayHandle(j))

\* C4: once the driver of a job whose Ray submission failed has finished,
\* the record is queued or error and holds the error text.
C4_SubmissionFailureCaptured ==
  \A j \in Jobs :
    (bg[j] = "done" /\ ray_outcome[j] \in {"nohandle", "raised"})
      => /\ Stored(j)
         /\ Record(j).status \in {"queued", "error"}
         /\ Record(j).error # None

\* C5: no exception leaves the task of the background driver.
C5_DriverNeverRaises == \A j \in Jobs : bg[j] # "raised"

\* A driver has finished after its update to queued failed on the store (the
\* record in the collection is still submitted) and Ray gave no handle.
C5_Witness ==
  \E j \in Jobs :
    /\ bg[j] = "done"
    /\ ray_outcome[j] = "nohandle"
    /\ j \in DOMAIN jobs_coll
    /\ jobs_coll[j].status = "submitted"

CeilDiv(a, b) == (a + b - 1) \div b

\* C6: every job built by submit has estimated_gpus >= 1, equal to
\* ceil(size / capacity) for size > 0 and to 1 for size = 0.
C6_GpuEstimate ==
  \A r \in Jobs :
    job[r] # <<>> =>
      LET size == job[r][1].dataset_size_bytes
          gpus == job[r][1].estimated_gpus
      IN  /\ gpus >= 1
          /\ (size > 0 => gpus = CeilDiv(size, gpu_per_bytes))
          /\ (size = 0 => gpus = 1)

\* A string reference neither the catalog nor the local disk resolves.
Unresolvable(ref) == FindOne(datasets_coll, ref) = <<>> /\ ref \notin DOMAIN files

InvalidInput(p) ==
  \/ ~Truthy(p.model_name)
  \/ p.dataset_kind = "none"
  \/ /\ p.dataset_kind = "str"
     /\ (Strip(p.dataset_filename) = "" \/ Unresolvable(Strip(p.dataset_filename)))

\* C7: a submit call with a missing or empty model_name, or an empty or
\* unresolvable dataset reference, returns 400; a call that returned 400
\* built no job, stored none in the collection or the cache, and scheduled
\* no task.
C7_InvalidInputRejected ==
  \A r \in Jobs :
    /\ (pc[r] = "returned" /\ InvalidInput(request[r])) => submit_resp[r].code = 400
    /\ submit_resp[r].code = 400
         => /\ ~Stored(r)
            /\ job[r] = <<>>
            /\ bg[r] = "none"

\* A call with a model_name and an unresolvable reference has returned 400.
C7_Witness ==
  \E r \in Jobs :
    /\ submit_resp[r].code = 400
    /\ Truthy(request[r].model_name)
    /\ request[r].dataset_kind = "str"
    /\ Unresolvable(request[r].dataset_filename)
    /\ ~Stored(r)

\* C8: every persisted job has dataset_size_bytes > 0 and a dataset_dfs that
\* exists on disk.
C8_NoEmptyOrMissingDataset ==
  \A j \in Jobs :
    Stored(j) => /\ Record(j).dataset_size_bytes > 0
                 /\ Record(j).dataset_dfs \in DOMAIN files

C10_StatusDegrades ==
  status_resp.code # 0 =>
    /\ status_resp.code \in {200, 404}
    /\ ~Stored(status_resp.job_id) => status_resp.code = 404
    /\ status_resp.code = 200 => status_resp.job = << Record(status_resp.job_id) >>
    /\ status_resp.ray_status \in {"unknown", "ray_unavailable"}
         => /\ status_resp.code = 200
            /\ status_resp.job[1].ray_job_id # NoHandle

\* A status call for a record with a handle whose backend query failed.
C10_Witness ==
  /\ status_resp.code = 200
  /\ status_resp.ray_status = "unknown"
  /\ status_resp.job[1].ray_job_id # NoHandle

\* C11: a list call answers 200 with exactly the jobs whose client_code is
\* the one asked for, each once, newest first by created_at, whether it is
\* served from the collection or from the in-memory fallback (the jobs
\* meant are those of the source the call is served from).
C11_ListExactNewestFirst ==
  list_resp.code # 0 =>
    LET n == Len(list_resp.jobs)
        held == IF list_resp.served_from = "store" THEN jobs_coll ELSE jobs_cache
    IN  /\ list_resp.code = 200
        /\ {list_resp.jobs[i].job_id : i \in 1..n}
             = {j \in DOMAIN held : held[j].client_code = list_resp.client_code}
        /\ \A a, b \in 1..n : a # b => list_resp.jobs[a].job_id # list_resp.jobs[b].job_id
        /\ \A a, b \in 1..n :
             a < b => list_resp.jobs[a].created_at >= list_resp.jobs[b].created_at

RepeatedWithinTtl ==
  /\ get_call.pc \in {"done", "raised"}
  /\ prev_call.pc = "done"
  /\ prev_call.found
  /\ get_call.client_code = prev_call.client_code
  /\ get_call.attrs = prev_call.attrs
  /\ Truthy(get_call.attrs)
  /\ get_call.client_code \in DOMAIN config_coll
  /\ get_call.client_code \notin get_call.expired
  /\ ~get_call.cache_failed

\* C13: the second of two successive get(T, path) calls for a tenant with a
\* stored document, made within the TTL of the entry the first one wrote,
\* returns what the first returned, the value at path in the stored
\* document, from the cache and without a read of the document store.
C13_CacheRoundTrip ==
  RepeatedWithinTtl =>
    /\ get_call.pc = "done"
    /\ get_call.hit
    /\ get_call.reads = 0
    /\ get_call.result = prev_call.result
    /\ get_call.result
         = Traverse(config_coll[get_call.client_code], SplitDot(get_call.attrs))

\* get("acme", "a.b") has returned 1 twice, the second time from the cache.
C13_Witness ==
  /\ RepeatedWithinTtl
  /\ get_call.client_code = "acme"
  /\ get_call.attrs = "a.b"
  /\ get_call.hit
  /\ get_call.result = "1"
  /\ prev_call.result = "1"

\* C14: a get call whose store reads all succeeded makes at most one
\* fallback hop (none when called for "default" itself), never ends in a
\* RecursionError, and returns not-found (None) when neither the tenant nor
\* "default" has a stored document.
C14_OneFallbackHop ==
  ~get_call.store_failed =>
    /\ get_call.depth <= 1
    /\ get_call.client_code = "default" => get_call.depth = 0
    /\ get_call.error # "RecursionError"
    /\ (/\ get_call.pc \in {"done", "raised"}
        /\ get_call.client_code \notin DOMAIN config_coll
        /\ "default" \notin DOMAIN config_coll
        /\ ~get_call.cache_failed)
         => (get_call.pc = "done" /\ get_call.result = None)

\* C15: a get call in which a Redis operation failed does not raise that
\* failure: it ends with a value, after reading the document store.
C15_CacheFailureAbsorbed ==
  (get_call.cache_failed /\ get_call.pc \in {"done", "raised"})
    => /\ get_call.error # "RedisError"
       /\ get_call.pc = "done" => get_call.reads >= 1

\* C16: once a get call has returned or failed, every Redis entry it wrote
\* has an expiry.
C16_WrittenEntryExpires ==
  get_call.pc \in {"done", "raised"} =>
    \A k \in DOMAIN redis : redis[k].writer = 1 => redis[k].expires

\* The entries of a routing table.
RoutingEntries(table) == {table[i] : i \in 1..Len(table)}

\* C17: when the lookups of an infer call did not fail and the routing table
\* is the one the call started with, the call is routed to an entry that
\* matches (model_name, client_code) exactly when there is one, otherwise to
\* a base entry of model_name when there is one, and otherwise it answers
\* 404 without a target.
C17_RoutingPrecedence ==
  LET g == infer_call
      exact == {e \in RoutingEntries(g.table) :
                  e.model_name = g.model_name /\ e.client_code = g.client_code}
      bases == {e \in RoutingEntries(g.table) :
                  e.model_name = g.model_name /\ e.is_base}
  IN  (g.pc \in {"forward", "done"} /\ ~g.lookup_failed /\ g.table = model_routing)
        => IF exact # {} THEN g.target \in {e.service_url : e \in exact}
           ELSE IF bases # {} THEN g.target \in {e.service_url : e \in bases}
           ELSE g.code = 404 /\ g.target = None

\* Tenant t1's entry and the base entry of m1 are in the table and an infer
\* call of tenant t2 for m1 was routed to the base deployment.
C17_Witness ==
  /\ \E e \in RoutingEntries(model_routing) : e.model_name = "m1" /\ e.client_code = "t1"
  /\ \E e \in RoutingEntries(model_routing) : e.model_name = "m1" /\ e.is_base
  /\ infer_call.pc = "done" /\ infer_call.code = 200 /\ ~infer_call.lookup_failed
  /\ infer_call.model_name = "m1" /\ infer_call.client_code = "t2"
  /\ infer_call.table = model_routing
  /\ infer_call.target = "http://vllm-base-m1-svc.default.svc.cluster.local:8000"

\* C18: a deploy call that returned "deployed" has a routing entry under its
\* deployment name, and every routing entry belongs to a deployment whose
\* workload, service and scaled object exist.
C18_DeployedMeansRouted ==
  /\ \A d \in Deploys :
       deploy_call[d].pc = "returned"
         => \E e \in RoutingEntries(model_routing) :
              e.deployment_name = DeploymentName(deploy_call[d].req)
  /\ \A e \in RoutingEntries(model_routing) :
       /\ e.deployment_name \in k8s.deployments
       /\ ServiceName(e.deployment_name) \in k8s.services
       /\ ScaledObjectName(e.deployment_name) \in k8s.scaledobjects

\* C19: two deploy_fine_tuned_model calls of one tenant, neither of which met
\* a failure of the backend's own, both return "deployed".
C19_FineTunedTwiceSucceeds ==
  \A d1, d2 \in Deploys :
    ( /\ d1 < d2
      /\ deploy_call[d1].req.kind = "fine_tuned"
      /\ deploy_call[d2].req.kind = "fine_tuned"
      /\ deploy_call[d1].req.client_code = deploy_call[d2].req.client_code
      /\ deploy_call[d1].fail_at = "nowhere"
      /\ deploy_call[d2].fail_at = "nowhere"
      /\ deploy_call[d1].pc \in {"returned", "failed"}
      /\ deploy_call[d2].pc \in {"returned", "failed"} )
      => deploy_call[d1].pc = "returned" /\ deploy_call[d2].pc = "returned"

\* The step of a deploy call in which the creation of the deployment, the
\* service or the scaled object fails, and the steps after it.
FailedCreateStep ==
  /\ \A d \in Deploys :
       ( /\ deploy_call[d].pc = "idle"
         /\ deploy_call'[d].pc # "idle"
         /\ deploy_call'[d].fail_at \in {"deployment", "service", "scaledobject"} )
         => /\ deploy_call'[d].pc = "failed"
            /\ deploy_call'[d].code = 500
            /\ deploy_call'[d].status # 0
            /\ deploy_call'[d].created \subseteq Objects(k8s')
            /\ model_routing' = model_routing
  /\ \A d \in Deploys :
       deploy_call[d].pc = "failed" => deploy_call'[d] = deploy_call[d]
  /\ Objects(k8s) \subseteq Objects(k8s')

\* C20: a deploy call in which the creation of the deployment, the service
\* or the scaled object fails ends in that step with an error (500), leaves
\* in the cluster every object that was there and every object it created,
\* and writes no routing entry, neither in that step nor later.
C20_CreateFailureIsFatal == [][FailedCreateStep]_vars

\* A call of tenant t1 failed at the service: its deployment stays in the
\* cluster, there is no service and no routing entry of that deployment.
C20_Witness ==
  \E d \in Deploys :
    LET name == DeploymentName(deploy_call[d].req)
    IN  /\ deploy_call[d].pc = "failed"
        /\ deploy_call[d].fail_at = "service"
        /\ deploy_call[d].status = 500
        /\ name \in deploy_call[d].created
        /\ name \in k8s.deployments
        /\ ServiceName(name) \notin k8s.services
        /\ \A e \in RoutingEntries(model_routing) : e.deployment_name # name

\* The routing table has one entry per deployment_name at most.
OneEntryPerDeployment ==
  \A i, k \in 1..Len(model_routing) :
    i # k => model_routing[i].deployment_name # model_routing[k].deployment_name

\* A step that changes the routing table is the write of one deploy call and
\* leaves under that call's deployment_name the document of that call alone,
\* and every other entry as it was.
LastWriterWins ==
  model_routing' # model_routing =>
    \E d \in Deploys :
      LET doc == RoutingDoc(deploy_call[d].req)
      IN  /\ deploy_call[d].pc # "returned" /\ deploy_call'[d].pc = "returned"
          /\ {e \in RoutingEntries(model_routing') :
                e.deployment_name = doc.deployment_name} = {doc}
          /\ {e \in RoutingEntries(model_routing') :
                e.deployment_name # doc.deployment_name}
               = {e \in RoutingEntries(model_routing) :
                    e.deployment_name # doc.deployment_name}

ResolvedTriple(r) ==
  << job[r][1].dataset_dfs, job[r][1].dataset_s3, job[r][1].dataset_size_bytes >>

\* Calls r1 and r2 both built a job from the same string, which names a
\* record of the catalog.
SameCatalogReference(r1, r2) ==
  /\ r1 # r2
  /\ job[r1] # <<>> /\ job[r2] # <<>>
  /\ request[r1].dataset_kind = "str" /\ request[r2].dataset_kind = "str"
  /\ Strip(request[r1].dataset_filename) = Strip(request[r2].dataset_filename)
  /\ FindOne(datasets_coll, Strip(request[r1].dataset_filename)) # <<>>

MatchesBy(catalog, field, ref) ==
  {i \in 1..Len(catalog) :
     CASE field = "dataset_s3" -> catalog[i].dataset_s3 = ref
       [] field = "dataset_dfs" -> catalog[i].dataset_dfs = ref
       [] field = "filename" -> catalog[i].filename = ref
       [] OTHER -> IsObjectId(ref) /\ catalog[i].id = ref}

\* The records a string matches through the earliest field, in the order
\* remote key, storage path, filename, record identifier, that matches any.
EarliestFieldMatches(catalog, ref) ==
  IF MatchesBy(catalog, "dataset_s3", ref) # {} THEN MatchesBy(catalog, "dataset_s3", ref)
  ELSE IF MatchesBy(catalog, "dataset_dfs", ref) # {}
    THEN MatchesBy(catalog, "dataset_dfs", ref)
  ELSE IF MatchesBy(catalog, "filename", ref) # {} THEN MatchesBy(catalog, "filename", ref)
  ELSE MatchesBy(catalog, "id", ref)

RecordsOf(u) ==
  {i \in 1..Len(datasets_coll) :
     datasets_coll[i].dataset_dfs = DatasetPath(u, upload_call[u].client_code)}

\* C24: an upload whose remote mirror failed is answered 201 with the local
\* path and an absent remote key, and its file is on the local disk; an
\* upload whose local persistence failed is answered with an error, and the
\* catalog has no record of it.
C24_MirrorOptionalLocalFatal ==
  \A u \in Uploads :
    upload_call[u].pc = "returned" =>
      /\ (upload_call[u].saved = "saved" /\ ~upload_call[u].mirrored) =>
           /\ upload_call[u].code = 201
           /\ upload_call[u].dataset_s3 = None
           /\ upload_call[u].dataset_dfs = DatasetPath(u, upload_call[u].client_code)
           /\ upload_call[u].dataset_dfs \in DOMAIN files
           /\ \A i \in RecordsOf(u) : datasets_coll[i].dataset_s3 = None
      /\ upload_call[u].saved # "saved" =>
           /\ upload_call[u].code \in {400, 500}
           /\ upload_call[u].dataset_id = None
           /\ RecordsOf(u) = {}
           /\ Len(datasets_coll) =
                Len(InitialCatalog)
                + Cardinality({v \in Uploads : upload_call[v].dataset_id # None})

\* One upload lost its mirror and was recorded, another failed on the local
\* disk.
C24_Witness ==
  \E u, v \in Uploads :
    /\ upload_call[u].pc = "returned" /\ upload_call[v].pc = "returned"
    /\ upload_call[u].saved = "saved" /\ ~upload_call[u].mirrored
    /\ upload_call[u].code = 201 /\ RecordsOf(u) # {}
    /\ upload_call[v].saved = "OSError" /\ upload_call[v].code = 500

\* The fields of a job record that are set at submission (job_id is the key
\* under which the record is stored).
SubmittedFields(rec) ==
  << rec.client_code, rec.created_at, rec.model_name, rec.dataset_dfs, rec.dataset_s3,
     rec.dataset_size_bytes, rec.estimated_gpus >>

\* A step keeps every stored job stored, with the fields set at submission,
\* and changes a stored job only when it is a step of that job's background
\* task; a step of a status or list call changes no stored job.
StoredJobsFrame ==
  /\ \A j \in Jobs :
       Stored(j) =>
         /\ Stored(j)'
         /\ SubmittedFields(Record(j)') = SubmittedFields(Record(j))
         /\ Record(j)' # Record(j) => bg'[j] # bg[j]
  /\ (status_resp' # NoStatusResp \/ list_resp' # NoListResp) =>
       (jobs_coll' = jobs_coll /\ jobs_cache' = jobs_cache)

Accepted == {r \in Jobs : submit_resp[r].code = 201}

\* Every accepted submit has one record, in the collection or in the cache
\* and not in both, and a background task; there are no other records and no
\* other tasks.
OneRecordOneTask ==
  /\ \A r \in Jobs :
       /\ r \in Accepted =>
            /\ (r \in DOMAIN jobs_coll) # (r \in DOMAIN jobs_cache)
            /\ bg[r] # "none"
       /\ r \notin Accepted =>
            /\ r \notin DOMAIN jobs_coll /\ r \notin DOMAIN jobs_cache
            /\ bg[r] = "none"
  /\ Cardinality(DOMAIN jobs_coll) + Cardinality(DOMAIN jobs_cache) = Cardinality(Accepted)

\* A background task is spawned once: no step spawns the task of a job that
\* has one, or ends it without trace.
SpawnedOnce ==
  \A r \in Jobs :
    bg[r] # "none" => (bg'[r] # "none" /\ (bg'[r] = "spawned" => bg[r] = "spawned"))

HitWithoutPath ==
  ( /\ get_call.pc = "get" /\ get_call.depth = 0
    /\ get_call.attrs = None
    /\ Cached(redis, get_call.code) = "parsed"
    /\ get_call' # get_call
    /\ ~get_call'.cache_failed )
  => /\ get_call'.pc = "done"
     /\ get_call'.hit
     /\ get_call'.result = redis[get_call.code].value.text_of
     /\ get_call'.reads = 0
     /\ redis' = redis

\* C27: with a present, parseable cache entry, get(tenant) without an
\* attribute path returns the decoded cached configuration, does not evict
\* the entry and does not read the store.
C27_HitWithoutPathServedFromCache == [][HitWithoutPath]_vars

\* The stored document of the tenant a call was made for.
StoredDoc(g) == config_coll[g.client_code]

\* C28: a get call that found a corrupt entry for a tenant with a stored
\* document, no Redis operation and no store read of it failing, ends with
\* the value from the stored document after one read of the store, and
\* leaves in Redis the stored document with an expiry, written by this call
\* in place of the corrupt entry.
C28_CorruptEntryReplaced ==
  ( /\ get_call.pc \in {"done", "raised"}
    /\ get_call.cached = "corrupt"
    /\ get_call.client_code \in DOMAIN config_coll
    /\ ~get_call.cache_failed /\ ~get_call.store_failed )
  => /\ get_call.pc = "done"
     /\ ~get_call.hit /\ get_call.depth = 0 /\ get_call.reads = 1
     /\ get_call.result = IF Truthy(get_call.attrs)
                            THEN GetNested(StoredDoc(get_call), get_call.attrs).value
                            ELSE StoredDoc(get_call)
     /\ get_call.client_code \notin ttl_expired =>
          /\ get_call.client_code \in DOMAIN redis
          /\ redis[get_call.client_code].value = DumpJson(StoredDoc(get_call))
          /\ redis[get_call.client_code].expires
          /\ redis[get_call.client_code].writer = 1

\* A call with an attribute path has replaced the corrupt entry of acme.
C28_Witness ==
  /\ get_call.pc = "done"
  /\ get_call.cached = "corrupt"
  /\ get_call.client_code = "acme" /\ get_call.attrs = "a.b"
  /\ ~get_call.cache_failed /\ ~get_call.store_failed
  /\ "acme" \in DOMAIN redis /\ redis["acme"].value = DumpJson(AcmeDoc)
  /\ get_call.result = GetNested(AcmeDoc, "a.b").value

\* C29: a submit call given a FineTuningJobRequest with a non-empty model and
\* a resolvable dataset_filename is answered 201 with a job in status
\* submitted whose model_name is the model of the request.
C29_TypedRequestAccepted ==
  \A r \in Jobs :
    ( /\ pc[r] = "returned"
      /\ request[r] \in {[p EXCEPT !.lookup = l] : p \in RoutePayloads, l \in {"none", "answered"}}
      /\ ~Unresolvable(Strip(request[r].dataset_filename)) )
    => /\ submit_resp[r].code = 201
       /\ submit_resp[r].status = "submitted"
       /\ job[r] # <<>>
       /\ job[r][1].model_name = request[r].model

\* C30: an infer call answers 404 for want of a target only when its lookups
\* were answered and the routing table holds neither an entry for
\* (model_name, client_code) nor a base entry for model_name; a call whose
\* lookup failed in the document store answers with a 5xx status.
C30_NotFoundOnlyWhenUnrouted ==
  LET g == infer_call
      exact == {e \in RoutingEntries(g.table) :
                  e.model_name = g.model_name /\ e.client_code = g.client_code}
      bases == {e \in RoutingEntries(g.table) :
                  e.model_name = g.model_name /\ e.is_base}
  IN  /\ (g.pc = "done" /\ g.code = 404 /\ g.target = None) =>
           /\ ~g.lookup_failed
           /\ g.table = model_routing => (exact = {} /\ bases = {})
      /\ (g.pc = "done" /\ g.lookup_failed) => g.code \in 500..599

\* A step in which a fine-tuned deploy call makes its Kubernetes calls: when
\* the volume claim does not exist and its creation fails, the call fails
\* with 500 and the step changes neither the cluster nor the routing table;
\* when the volume claim exists (409) and nothing else fails, the call
\* creates its deployment, service and scaled object and goes on to save the
\* routing entry.  A failed call takes no further step.
VolumeClaimStep ==
  /\ \A d \in Deploys :
       (deploy_call[d].pc = "idle" /\ deploy_call'[d].pc # "idle"
          /\ deploy_call'[d].req.kind = "fine_tuned") =>
         LET c == deploy_call'[d]
             name == DeploymentName(c.req)
             claim == PvcName(c.req.client_code)
         IN  /\ (claim \notin k8s.pvcs /\ c.fail_at = "pvc") =>
                  /\ c.pc = "failed" /\ c.code = 500 /\ c.status # 409
                  /\ k8s' = k8s
                  /\ model_routing' = model_routing
             /\ (claim \in k8s.pvcs /\ c.fail_at \in {"pvc", "nowhere"}
                   /\ {name, ServiceName(name), ScaledObjectName(name)} \cap Objects(k8s) = {}) =>
                  /\ c.pc = "saving"
                  /\ k8s'.pvcs = k8s.pvcs
                  /\ c.created = {name, ServiceName(name), ScaledObjectName(name)}
  /\ \A d \in Deploys :
       deploy_call[d].pc = "failed" => deploy_call'[d] = deploy_call[d]

\* C31: in deploy_fine_tuned_model an error of the volume claim creation
\* other than 409 ends the call before any deployment, service or scaled
\* object is created and before any routing entry is written; a 409 lets the
\* call go on to create its objects.
C31_VolumeClaimErrorAborts == [][VolumeClaimStep]_vars

\* After tenant t1's deployment, tenant t2's call failed at its volume claim:
\* none of its objects exists and the table has no entry of t2.
C31_Witness ==
  \E d, e \in Deploys :
    /\ deploy_call[d].pc = "returned" /\ deploy_call[d].req.client_code = "t1"
    /\ deploy_call[d].req.kind = "fine_tuned"
    /\ deploy_call[e].pc = "failed" /\ deploy_call[e].fail_at = "pvc"
    /\ deploy_call[e].req.kind = "fine_tuned" /\ deploy_call[e].req.client_code = "t2"
    /\ deploy_call[e].created = {}
    /\ "pvc-t2" \notin k8s.pvcs
    /\ \A x \in RoutingEntries(model_routing) : x.client_code # "t2"

\* C32: every routing entry with is_base = true has the empty client_code,
\* and every entry with is_base = false has the client_code of a fine-tuned
\* deploy call that wrote an entry under its deployment name.
C32_ClientCodeMatchesKind ==
  \A e \in RoutingEntries(model_routing) :
    IF e.is_base
      THEN e.client_code = ""
      ELSE \E d \in Deploys :
             /\ deploy_call[d].pc = "returned"
             /\ deploy_call[d].req.kind = "fine_tuned"
             /\ DeploymentName(deploy_call[d].req) = e.deployment_name
             /\ deploy_call[d].req.client_code = e.client_code

\* The table holds the entry of a base model, deployed on a request that
\* named tenant t1, and the entry of tenant t2's fine-tuned model.
C32_Witness ==
  /\ \E e \in RoutingEntries(model_routing) :
       e.is_base /\ e.deployment_name = "vllm-base-m1" /\ e.client_code = ""
  /\ \E e \in RoutingEntries(model_routing) :
       ~e.is_base /\ e.deployment_name = "vllm-ft-t2-m1" /\ e.client_code = "t2"
  /\ \E d \in Deploys : deploy_call[d].req.kind = "base" /\ deploy_call[d].req.client_code = "t1"

\* C33: a job built from a string the catalog resolved has the client_code
\* of the record the catalog returned, and its storage location is that of
\* no record of another tenant.
C33_DatasetOfOwnTenant ==
  \A r \in Jobs :
    ( /\ job[r] # <<>>
      /\ request[r].lookup = "answered"
      /\ FindOne(datasets_coll, Strip(request[r].dataset_filename)) # <<>> )
    => /\ FindOne(datasets_coll, Strip(request[r].dataset_filename))[1].client_code
            = job[r][1].client_code
       /\ \A i \in 1..Len(datasets_coll) :
            datasets_coll[i].dataset_dfs = job[r][1].dataset_dfs
              => datasets_coll[i].client_code = job[r][1].client_code

\* C34: the target of an infer call is the service_url of a routing entry,
\* and every entry with that service_url has the empty client_code or the
\* client_code of the call; for a call without client_code every such entry
\* is a base entry.
C34_ForwardedToOwnOrBase ==
  LET g == infer_call
      hit == {e \in RoutingEntries(model_routing) : e.service_url = g.target}
  IN  (g.pc \in {"forward", "done"} /\ g.target # None) =>
        /\ hit # {}
        /\ \A e \in hit :
             /\ e.model_name = g.model_name
             /\ e.client_code \in {"", g.client_code}
             /\ ~Truthy(g.client_code) => e.is_base

\* The table holds tenant t1's entry for m1 and, after it, the base entry of
\* m1, and an infer call for m1 without a tenant was forwarded to the base
\* deployment.
C34_Witness ==
  /\ Len(model_routing) = 2
  /\ model_routing[1].client_code = "t1" /\ model_routing[1].model_name = "m1"
  /\ model_routing[2].is_base /\ model_routing[2].model_name = "m1"
  /\ infer_call.pc = "done" /\ infer_call.code = 200
  /\ infer_call.model_name = "m1" /\ infer_call.client_code = None
  /\ infer_call.target = model_routing[2].service_url

\* The (client_code, base_model) pair of a fine-tuned request.
TenantModel(req) == << req.client_code, req.model >>

\* Two fine-tuned deploy calls with different (client_code, base_model) have
\* different deployment names.
NamesInjective ==
  \A d, e \in Deploys :
    ( /\ deploy_call[d].req.kind = "fine_tuned" /\ deploy_call[e].req.kind = "fine_tuned"
      /\ TenantModel(deploy_call[d].req) # TenantModel(deploy_call[e].req) )
    => DeploymentName(deploy_call[d].req) # DeploymentName(deploy_call[e].req)

\* No step replaces a routing entry by the entry of another client_code or
\* model_name.
NoEntryOverwritten ==
  \A i \in 1..Len(model_routing) :
    /\ i <= Len(model_routing')
    /\ model_routing'[i].client_code = model_routing[i].client_code
    /\ model_routing'[i].model_name = model_routing[i].model_name

\* C35: two fine-tuned deploy requests with different (client_code,
\* base_model) never have the same deployment_name, and no deploy replaces
\* the routing entry written for another (client_code, base_model).
C35_NamesInjectiveNoOverwrite == []NamesInjective /\ [][NoEntryOverwritten]_vars

\* C36: Redis never holds a key of a tenant without a stored document, and
\* a get call for such a tenant that returns has read the document store
\* and was not answered from the tenant's own key.
C36_MissingTenantNotCached ==
  /\ \A t \in ConfigTenants \ DOMAIN config_coll : t \notin DOMAIN redis
  /\ (get_call.pc = "done" /\ get_call.client_code \notin DOMAIN config_coll) =>
       /\ get_call.reads >= 1
       /\ get_call.hit => get_call.depth >= 1

\* Two successive get calls for ghost were answered from the "default"
\* document: Redis holds the key default and not the key ghost, and the
\* second call has read the store.
C36_Witness ==
  /\ "default" \in DOMAIN config_coll
  /\ prev_call.pc = "done" /\ prev_call.client_code = "ghost" /\ prev_call.result # None
  /\ get_call.pc = "done" /\ get_call.client_code = "ghost" /\ get_call.result # None
  /\ get_call.reads >= 1 /\ get_call.hit /\ get_call.depth = 1
  /\ "default" \in DOMAIN redis /\ "ghost" \notin DOMAIN redis

\* The background task of job j has returned.
DriverReturned(j) == bg[j] \in {"done", "raised"}

\* A step leaves the task of a job whose driver has returned where it is,
\* and the stored status of the job as it is.
StatusFrozen ==
  \A j \in Jobs :
    DriverReturned(j) =>
      /\ bg'[j] = bg[j]
      /\ PersistedStatus(j)' = PersistedStatus(j)

FailedPartway(d) ==
  /\ deploy_call[d].pc = "failed"
  /\ DeploymentName(deploy_call[d].req) \in deploy_call[d].created

\* C38: after a deploy call has failed leaving its deployment created, every
\* later deploy call for the same deployment name fails with the 409 of the
\* deployment and creates nothing under that name, and the routing table has
\* no entry for the name.
C38_RetryAfterPartialFailureFails ==
  \A d \in Deploys :
    FailedPartway(d) =>
      LET name == DeploymentName(deploy_call[d].req)
      IN  /\ \A e \in Deploys :
               (e > d /\ deploy_call[e].pc # "idle"
                  /\ DeploymentName(deploy_call[e].req) = name) =>
                 /\ deploy_call[e].pc = "failed"
                 /\ deploy_call[e].status = 409
                 /\ deploy_call[e].code = 500
                 /\ deploy_call[e].created
                      \cap {name, ServiceName(name), ScaledObjectName(name)} = {}
          /\ \A x \in RoutingEntries(model_routing) : x.deployment_name # name

\* Tenant t1's deploy of m1 failed at its service, and the same request made
\* again was refused with 409.
C38_Witness ==
  /\ FailedPartway(1)
  /\ deploy_call[1].req = [kind |-> "fine_tuned", client_code |-> "t1", model |-> "m1"]
  /\ deploy_call[1].fail_at = "service"
  /\ deploy_call[2].req = deploy_call[1].req
  /\ deploy_call[2].pc = "failed" /\ deploy_call[2].status = 409
  /\ deploy_call[2].fail_at = "nowhere"

\* C39: no status write of the background driver is dropped: a status
\* response that shows the record of a job whose driver has returned never
\* shows the status submitted.
C39_NoStatusWriteDropped ==
  \A j \in Jobs :
    (DriverReturned(j) /\ status_resp.job_id = j /\ status_resp.code = 200) =>
      status_resp.job[1].status # "submitted"

====
